---- MODULE Spec2Model ----
(***************************************************************************)
(* Model of the control core of the MCP2517FD CAN-FD SPI driver            *)
(* (drivers/net/can/spi/mcp2517fd.c).                                      *)
(*                                                                         *)
(* 32-bit words (u32) are modelled as the set of their set bit positions   *)
(* (a subset of 0..31): and is \cap, or is \cup, BIT(n) is {n}.  Bytes on  *)
(* the SPI link are integers 0..255.  The register bits of the bring-up    *)
(* path keep their numeric value and are used as Bits(value).              *)
(*                                                                         *)
(* Specifications:                                                         *)
(*   Spec       the driver: open/stop, concurrent start_xmit callers, the  *)
(*              interrupt thread, with a healthy SPI link                  *)
(*   SpecXmit   open/stop and one start_xmit caller, every frame of        *)
(*              Frames, spi_async may fail                                 *)
(*   SpecIrq    open/stop, one start_xmit caller and the interrupt thread  *)
(*              with transmit-event (TEF) entries of the controller        *)
(*   SpecCodec  the register access codec (cmd_reset/read_mask/write_mask) *)
(*   SpecBt     the bit-timing register words                              *)
(*   SpecOpen   mcp2517fd_open step by step (probe, clock, registers,      *)
(*              FIFOs, mode) against a controller that switches mode and   *)
(*              locks its clock on its own, then the interrupt thread      *)
(*   SpecOpenLive  SpecOpen where time advances and the polling loop of    *)
(*              setup_osc keeps running                                    *)
(***************************************************************************)
EXTENDS Integers, Sequences, FiniteSets, TLC

(***************************************************************************)
(* Bounds of the model                                                     *)
(***************************************************************************)
\* number of concurrent callers of mcp2517fd_start_xmit
NumXmit == 2

(***************************************************************************)
(* Words, bytes and bit operations                                         *)
(***************************************************************************)
WordBits == 0..31

Min(S) == CHOOSE x \in S : \A y \in S : x <= y
Max(S) == CHOOSE x \in S : \A y \in S : x >= y

\* the bits of a natural number below 2^31
Bits(n) == {i \in 0..30 : (n \div (2^i)) % 2 = 1}

\* the value of a set of bit positions below 31
RECURSIVE Val(_)
Val(S) == IF S = {} THEN 0 ELSE LET m == Max(S) IN (2^m) + Val(S \ {m})

\* w << n and w >> n on u32
Shl(w, n) == {b + n : b \in w} \cap WordBits
Shr(w, n) == {b - n : b \in w} \cap WordBits

\* ffs(): 1-based position of the lowest set bit, 0 for an empty word
ffs(w) == IF w = {} THEN 0 ELSE Min(w) + 1
\* fls(): 1-based position of the highest set bit, 0 for an empty word
fls(w) == IF w = {} THEN 0 ELSE Max(w) + 1

\* byte k (0..3) of a word in memory after cpu_to_le32(): bits 8k..8k+7
ByteOf(w, k) == Val({b - 8 * k : b \in {x \in w : x \div 8 = k}})
\* a byte value placed at byte position k of a little-endian word
ByteAt(v, k) == {b + 8 * k : b \in Bits(v) \cap (0..7)}
\* the four bytes of cpu_to_le32(w) in memory order
LE32(w) == [i \in 1..4 |-> ByteOf(w, i - 1)]
\* le32_to_cpu() of four bytes in memory order
FromLE32(bs) == UNION {ByteAt(bs[i], i - 1) : i \in 1..4}

(***************************************************************************)
(* Program constants                                                       *)
(***************************************************************************)
TxFifosCan == 30
TxFifosCanFd == 8
PayloadCan == 8
PayloadCanFd == 64

CAN_OBJ_FLAGS_DLC_SHIFT == 0
CAN_OBJ_FLAGS_DLC_BITS == 4
CAN_OBJ_FLAGS_IDE == {4}
CAN_OBJ_FLAGS_RTR == {5}
CAN_OBJ_FLAGS_BRS == {6}
CAN_OBJ_FLAGS_FDF == {7}
CAN_OBJ_FLAGS_ESI == {8}
CAN_OBJ_FLAGS_SEQ_SHIFT == 9
CAN_OBJ_FLAGS_SEQ_BITS == 7

\* linux/can.h: flag and mask bits of can_id
CAN_EFF_FLAG == {31}
CAN_RTR_FLAG == {30}
CAN_SFF_MASK == 0..10
CAN_EFF_MASK == 0..28

Threads == 1..NumXmit
Mtus == {"CAN_MTU", "CANFD_MTU"}

VARIABLES
    \* struct mcp2517fd_priv and the net device
    dev_up,           \* the net device is up (between ndo_open = 0 and ndo_stop)
    tx_fifos,         \* priv->tx_fifos
    payload_size,     \* priv->payload_size
    tx_pending_mask,  \* priv->tx_pending_mask
    txfifo_lock,      \* priv->txfifo_lock: 0 free, else the holder
    queue_stopped,    \* netif_stop_queue / netif_wake_queue
    irq_registered,   \* request_threaded_irq / free_irq
    open_calls,       \* what the last mcp2517fd_open call asked of the CAN core, the
                      \* regulator, the interrupt core and the network queue; dropped
                      \* by ndo_stop
    irq_enabled,      \* enable_irq / disable_irq
    \* callers of mcp2517fd_start_xmit
    pc,               \* position of each caller
    prio,             \* the caller's local prio
    last_ret,         \* return value of the start_xmit call that returned last
                      \* since the device came up
    tx_msg,           \* the data message queued last since the device came up:
                      \* <<>> or <<[slot, frame, obj, len]>>
    \* history
    alloc_log,        \* slots allocated since the bitmap was last empty
    tx_errors,        \* net->stats.tx_errors, counted from its value at the
                      \* last call of ndo_open
    echo_freed,       \* the indices mcp2517fd_clean has passed to can_free_echo_skb
                      \* since the last call of ndo_open
    txm,              \* priv->tx_msg[slot] of one slot, in bytes
    spi_queue,        \* the messages queued with spi_async that the link has
                      \* not completed yet
    tef_done,         \* slots named by the TEF entries present when the
                      \* interrupt thread handled a TEF interrupt
    \* the SPI link and the controller behind it
    link_log,         \* the transactions of the register access functions
    dev_mem,          \* the controller's register bytes, by address
    \* one caller of the register access functions and of the bit-timing setup
    c_pc,             \* position of the caller
    c_reg,            \* argument reg
    c_mask,           \* argument mask
    c_val,            \* argument data of a write
    c_ret,            \* return value of the last call
    c_data,           \* *data after a read
    c_oob,            \* a call accessed memory outside the object it was given
    bt,               \* priv->can.bittiming or priv->can.data_bittiming
    \* mcp2517fd_open and what it calls
    mcp_lock,         \* priv->mcp_lock: 0 free, else the holder
    o_pc,             \* position of the caller of mcp2517fd_open
    o_i,              \* the loop variable i of mcp2517fd_setup_fifo
    o_ret,            \* return value of the last mcp2517fd_open call
    net_mtu,          \* net->mtu
    clock_pll,        \* priv->clock_pll
    ctrlmode,         \* priv->can.ctrlmode: the flags that are set
    clock_div2,       \* priv->clock_div2
    clock_odiv,       \* priv->clock_odiv
    rx_fifos,         \* priv->rx_fifos
    rx_address_inc,   \* priv->rx_address_inc
    rx_address_start, \* priv->rx_address_start
    rx_address,       \* priv->rx_address
    rx_address_end,   \* priv->rx_address_end
    tef_address_start,\* priv->tef_address_start
    tef_address,      \* priv->tef_address
    tef_address_end,  \* priv->tef_address_end
    jiffies,          \* the kernel's jiffies counter, an unsigned long
    timeout,          \* the local timeout of mcp2517fd_setup_osc
    since_check,      \* jiffies passed since the loop condition was last evaluated
    elapsed,          \* jiffies passed since timeout was set, up to the deadline + 1
    osc_polls,        \* the values read by the polls of the running setup_osc call
    fail_seen,        \* <<place, return value>> of the bring-up failures so far
    opens,            \* the calls of mcp2517fd_open so far
    \* the controller
    dev_osc,          \* its MCP2517FD_OSC register
    dev_con,          \* its CAN_CON register
    \* register accesses since open, and the interrupt thread
    io_log,           \* the register accesses since mcp2517fd_open was entered
    rx_handled        \* RX elements waiting when the interrupt thread handled
                      \* an RX interrupt

txVars == <<txm, spi_queue>>

drvVars == <<dev_up, tx_fifos, payload_size, tx_pending_mask, txfifo_lock,
             queue_stopped, irq_registered, open_calls, irq_enabled, pc, prio, last_ret,
             tx_msg, alloc_log, tx_errors, echo_freed, txVars, tef_done>>

linkVars == <<link_log, dev_mem, c_pc, c_reg, c_mask, c_val, c_ret, c_data,
              c_oob, bt>>

openVars == <<mcp_lock, o_pc, o_i, o_ret, net_mtu, clock_pll, ctrlmode, clock_div2, clock_odiv,
              rx_fifos, rx_address_inc, rx_address_start, rx_address, rx_address_end,
              tef_address_start, tef_address, tef_address_end, jiffies, timeout,
              since_check, elapsed, osc_polls, fail_seen, opens, dev_osc, dev_con>>

evVars == <<io_log, rx_handled>>

vars == <<drvVars, linkVars, openVars, evVars>>

devVars == <<dev_up, tx_fifos, payload_size, queue_stopped, irq_registered, open_calls,
             irq_enabled>>

(***************************************************************************)
(* Frames handed to start_xmit (struct can_frame / struct canfd_frame)     *)
(***************************************************************************)
Frame(fd, eff, rtr, brs, esi, id, len) ==
    [fd |-> fd, eff |-> eff, rtr |-> rtr, brs |-> brs, esi |-> esi,
     id |-> id, len |-> len]

\* frame->can_id
CanId(f) == Bits(f.id) \cup (IF f.eff THEN CAN_EFF_FLAG ELSE {})
                       \cup (IF f.rtr THEN CAN_RTR_FLAG ELSE {})

ClassicFrames ==
    {Frame(FALSE, eff, rtr, FALSE, FALSE, id, len) :
        eff \in BOOLEAN, rtr \in BOOLEAN, id \in {291, 2047, 2339},
        len \in {0, 1, 8}}

FdLens == {0, 7, 8, 12, 64}

FdFrames ==
    {Frame(TRUE, eff, FALSE, brs, esi, id, len) :
        eff \in BOOLEAN, brs \in BOOLEAN, esi \in BOOLEAN, id \in {291},
        len \in FdLens}

Frames == ClassicFrames \cup FdFrames

\* the frame of the end-to-end scenario: standard id 0x123, 8 data bytes
ScenarioFrames == {Frame(FALSE, FALSE, FALSE, FALSE, FALSE, 291, 8)}

\* can_len2dlc() / can_dlc2len() of the CAN core
can_len2dlc(len) ==
    IF len <= 8 THEN len
    ELSE IF len <= 12 THEN 9
    ELSE IF len <= 16 THEN 10
    ELSE IF len <= 20 THEN 11
    ELSE IF len <= 24 THEN 12
    ELSE IF len <= 32 THEN 13
    ELSE IF len <= 48 THEN 14
    ELSE 15

can_dlc2len(dlc) ==
    IF dlc <= 8 THEN dlc
    ELSE IF dlc = 9 THEN 12
    ELSE IF dlc = 10 THEN 16
    ELSE IF dlc = 11 THEN 20
    ELSE IF dlc = 12 THEN 24
    ELSE IF dlc = 13 THEN 32
    ELSE IF dlc = 14 THEN 48
    ELSE 64

\* ALIGN(len, 4)
Align4_Next(len) == (len \div 4 + 1) * 4
Align4(len) == ((len + 3) \div 4) * 4

(***************************************************************************)
(* Message codec: mcp2517fd_transmit_message / _fdmessage                  *)
(***************************************************************************)
\* obj.id and the initial obj.flags
ObjId(f) == IF f.eff THEN CanId(f) \cap CAN_EFF_MASK
                     ELSE CanId(f) \cap CAN_SFF_MASK
ObjFlags0(f) == IF f.eff THEN CAN_OBJ_FLAGS_IDE ELSE {}

\* C's a | b | c ? X : 0 | d ? Y : ... parses as (a | b | c) ? X : ((0 | d) ? Y : ...)
ClassicFlags(p, f) ==
    LET dlc == IF f.len > 8 THEN 8 ELSE f.len
        f1 == ObjFlags0(f) \cup Shl(Bits(dlc), CAN_OBJ_FLAGS_DLC_SHIFT)
        cond == Shl(Bits(p), CAN_OBJ_FLAGS_SEQ_SHIFT) \cup (CanId(f) \cap CAN_EFF_FLAG)
    IN  f1 \cup (IF cond # {} THEN CAN_OBJ_FLAGS_IDE
                 ELSE IF CanId(f) \cap CAN_RTR_FLAG # {} THEN CAN_OBJ_FLAGS_RTR
                 ELSE {})

FdFlags(p, f) ==
    LET dlc == can_len2dlc(f.len)
        cond == Shl(Bits(dlc), CAN_OBJ_FLAGS_DLC_SHIFT)
                \cup Shl(Bits(p), CAN_OBJ_FLAGS_SEQ_SHIFT)
                \cup (CanId(f) \cap CAN_EFF_FLAG)
    IN  ObjFlags0(f) \cup
        (IF cond # {} THEN CAN_OBJ_FLAGS_IDE
         ELSE IF CanId(f) \cap CAN_RTR_FLAG # {} THEN CAN_OBJ_FLAGS_RTR
         ELSE IF f.brs THEN CAN_OBJ_FLAGS_BRS
         ELSE IF f.esi THEN CAN_OBJ_FLAGS_ESI
         ELSE CAN_OBJ_FLAGS_FDF)

\* the data length handed to mcp2517fd_transmit_message_common
TxLen(f) == IF f.fd THEN can_dlc2len(can_len2dlc(f.len))
            ELSE IF f.len > 8 THEN 8 ELSE f.len

\* msg->data.obj as bytes on the link, and msg->data.xfer.len
\* (min_length = 2 bytes cmd_addr + 8 bytes obj)
EncodeMessage(p, f) ==
    LET flags == IF f.fd THEN FdFlags(p, f) ELSE ClassicFlags(p, f)
    IN  [slot |-> p,
         frame |-> f,
         obj |-> LE32(ObjId(f)) \o LE32(flags),
         len |-> 2 + 8 + Align4(TxLen(f))]

\* the encoding of every frame in every slot, computed once
TxObjects == [p \in WordBits, f \in Frames |-> EncodeMessage(p, f)]
TransmitMessage(p, f) == TxObjects[p, f]

(***************************************************************************)
(* Fields of a TX message object, read back from its bytes on the link     *)
(***************************************************************************)
MsgId(m) == FromLE32(SubSeq(m.obj, 1, 4))
MsgFlags(m) == FromLE32(SubSeq(m.obj, 5, 8))
MsgField(m, shift, bits) == Val(Shr(MsgFlags(m), shift) \cap (0..(bits - 1)))
MsgDlc(m) == MsgField(m, CAN_OBJ_FLAGS_DLC_SHIFT, CAN_OBJ_FLAGS_DLC_BITS)
MsgSeq(m) == MsgField(m, CAN_OBJ_FLAGS_SEQ_SHIFT, CAN_OBJ_FLAGS_SEQ_BITS)

(***************************************************************************)
(* mcp2517fd_open / mcp2517fd_stop                                         *)
(***************************************************************************)
OpenOutcomes == {"candev", "irq", "probe", "setup", "setup_fifo", "normal", "ok"}

\* mcp2517fd_setup_fifo: the sizing chosen from net->mtu
FifoTxFifos(mtu) == IF mtu = "CAN_MTU" THEN TxFifosCan ELSE TxFifosCanFd
FifoPayload_Fd(mtu) == PayloadCanFd
FifoPayload(mtu) == IF mtu = "CAN_MTU" THEN PayloadCan ELSE PayloadCanFd

\* mcp2517fd_open_clean: free_irq, power off, close_candev
\* (mcp2517fd_hw_sleep is empty)
OpenCleanCalls_Twice == <<"free_irq", "power_off", "close_candev", "close_candev">>
OpenCleanCalls == <<"free_irq", "power_off", "close_candev">>

\* what mcp2517fd_open has asked for when it returns after outcome o
OpenCalls(o) ==
    CASE o = "candev" -> <<>>
      [] o = "irq"    -> <<"open_candev", "power_on", "power_off", "close_candev">>
      [] o = "ok"     -> <<"open_candev", "power_on", "request_irq", "wake_queue">>
      [] OTHER        -> <<"open_candev", "power_on", "request_irq">> \o OpenCleanCalls

\* ndo_open.  The outcome names the step that failed: open_candev, the
\* interrupt request, mcp2517fd_hw_probe, mcp2517fd_setup before
\* mcp2517fd_setup_fifo, a register access of mcp2517fd_setup_fifo,
\* mcp2517fd_set_normal_mode, or none.  mcp_lock is taken and released inside.
Open ==
    /\ ~dev_up
    /\ \E mtu \in Mtus, o \in OpenOutcomes :
        LET sized == o \in {"setup_fifo", "normal", "ok"} IN
        /\ tx_fifos' = IF sized THEN FifoTxFifos(mtu) ELSE tx_fifos
        /\ payload_size' = IF sized THEN FifoPayload(mtu) ELSE payload_size
        /\ dev_up' = (o = "ok")
        /\ irq_registered' = (o = "ok")
        /\ open_calls' = OpenCalls(o)
        /\ irq_enabled' = (o = "ok")
        /\ queue_stopped' = IF o = "ok" THEN FALSE ELSE queue_stopped
    /\ tx_errors' = 0
    /\ echo_freed' = <<>>
    /\ UNCHANGED <<linkVars, openVars, evVars, txVars,
                   tx_pending_mask, txfifo_lock, pc, prio, last_ret, tx_msg,
                   alloc_log, tef_done>>

\* mcp2517fd_clean: the bitmap after the stop-time cleanup
CleanMask(mask) == {}

\* mcp2517fd_clean: the tx_errors++ of its loop over the TX FIFOs
CleanErrors_Any(mask, fifos) == IF mask = {} THEN 0 ELSE 1
CleanErrors(mask, fifos) == Cardinality({i \in 0..(fifos - 1) : i \in mask})

\* mcp2517fd_clean: the can_free_echo_skb(priv->net, 0) of its loop, one
\* call for every pending slot, each with index 0
CleanFreed(mask, fifos) == [k \in 1..CleanErrors(mask, fifos) |-> 0]

\* ndo_stop; the network core calls it once no start_xmit call is running
Stop ==
    /\ dev_up
    /\ \A t \in Threads : pc[t] = "idle"
    /\ tx_errors' = tx_errors + CleanErrors(tx_pending_mask, tx_fifos)
    /\ echo_freed' = CleanFreed(tx_pending_mask, tx_fifos)
    /\ dev_up' = FALSE
    /\ irq_registered' = FALSE
    /\ open_calls' = <<>>
    /\ irq_enabled' = FALSE
    /\ tx_pending_mask' = CleanMask(tx_pending_mask)
    /\ alloc_log' = <<>>
    /\ tef_done' = {}
    /\ last_ret' = "none"
    /\ tx_msg' = <<>>
    /\ io_log' = <<>>
    /\ rx_handled' = 0
    /\ UNCHANGED <<linkVars, openVars, txVars, tx_fifos, payload_size, txfifo_lock,
                   queue_stopped, pc, prio>>

(***************************************************************************)
(* mcp2517fd_start_xmit                                                    *)
(***************************************************************************)
\* can_dropped_invalid_skb(): the frame is dropped, NETDEV_TX_OK
XmitDropInvalid(t) ==
    /\ dev_up
    /\ pc[t] = "idle"
    /\ last_ret' = "OK"
    /\ UNCHANGED <<linkVars, openVars, evVars,
                   devVars, tx_pending_mask, txfifo_lock, pc, prio, tx_msg,
                   alloc_log, tx_errors, echo_freed, txVars, tef_done>>

\* mutex_lock(&priv->txfifo_lock)
XmitLock(t) ==
    /\ dev_up
    /\ pc[t] = "idle"
    /\ txfifo_lock = 0
    /\ txfifo_lock' = t
    /\ pc' = [pc EXCEPT ![t] = "read"]
    /\ UNCHANGED <<linkVars, openVars, evVars,
                   devVars, tx_pending_mask, prio, last_ret, tx_msg, alloc_log,
                   tx_errors, echo_freed, txVars,
                   tef_done>>

\* the slot start_xmit selects for a bitmap
AllocPrio_LowestSet(mask) == ffs(mask)
AllocPrio(mask) == fls(mask)

\* prio = fls(priv->tx_pending_mask)
XmitRead(t) ==
    /\ pc[t] = "read"
    /\ prio' = [prio EXCEPT ![t] = AllocPrio(tx_pending_mask)]
    /\ pc' = [pc EXCEPT ![t] = "decide"]
    /\ UNCHANGED <<linkVars, openVars, evVars,
                   devVars, tx_pending_mask, txfifo_lock, last_ret, tx_msg,
                   alloc_log, tx_errors, echo_freed, txVars, tef_done>>

\* the bitmap after marking slot p as pending
MarkPending_Only(mask, p) == {p}
MarkPending(mask, p) == mask \cup {p}

\* if (prio >= tx_fifos) { unlock; return NETDEV_TX_BUSY; }
XmitBusy(t) ==
    /\ pc[t] = "decide"
    /\ prio[t] >= tx_fifos
    /\ txfifo_lock' = 0
    /\ pc' = [pc EXCEPT ![t] = "idle"]
    /\ prio' = [prio EXCEPT ![t] = 0]
    /\ last_ret' = "BUSY"
    /\ UNCHANGED <<linkVars, openVars, evVars,
                   devVars, tx_pending_mask, tx_msg, alloc_log, tx_errors, echo_freed, txVars, tef_done>>

\* priv->tx_pending_mask |= BIT(prio); mutex_unlock
XmitMark(t) ==
    /\ pc[t] = "decide"
    /\ prio[t] < tx_fifos
    /\ tx_pending_mask' = MarkPending(tx_pending_mask, prio[t])
    /\ alloc_log' = Append(alloc_log, prio[t])
    /\ tef_done' = tef_done \ {prio[t]}
    /\ txfifo_lock' = 0
    /\ pc' = [pc EXCEPT ![t] = "send"]
    /\ UNCHANGED <<linkVars, openVars, evVars,
                   devVars, prio, last_ret, tx_msg, tx_errors, echo_freed, txVars>>

\* the rest of start_xmit: stop the queue when the last slot was taken, encode
\* the frame into tx_msg[prio], queue the data and the trigger message with
\* spi_async, return.  F: the frames the caller may hand over (a CAN-FD frame
\* only with the CAN-FD MTU); R: the results spi_async may give.
XmitSend(t, F, R) ==
    /\ pc[t] = "send"
    /\ \E f \in F, data_ok \in R, trigger_ok \in R :
        /\ f.fd => payload_size = PayloadCanFd
        /\ tx_msg' = <<TransmitMessage(prio[t], f)>>
        /\ last_ret' = IF data_ok /\ trigger_ok THEN "OK" ELSE "BUSY"
    /\ queue_stopped' = IF prio[t] = tx_fifos - 1 THEN TRUE ELSE queue_stopped
    /\ pc' = [pc EXCEPT ![t] = "idle"]
    /\ prio' = [prio EXCEPT ![t] = 0]
    /\ UNCHANGED <<linkVars, openVars, evVars,
                   dev_up, tx_fifos, payload_size, irq_registered, open_calls, irq_enabled,
                   tx_pending_mask, txfifo_lock, alloc_log, tx_errors, echo_freed, txVars, tef_done>>

(***************************************************************************)
(* mcp2517fd_can_ist: the threaded interrupt handler                       *)
(***************************************************************************)
\* slots whose frame was handed to the controller
Submitted == tx_pending_mask \ {prio[t] : t \in {u \in Threads : pc[u] = "send"}}

\* the bitmap after the handler saw the TEF entries naming the slots `done`
IstRelease_Flush(mask, done) == {}
IstRelease(mask, done) == mask

\* the TEF contents the controller may present to the handler: nothing, or
\* one entry naming a submitted slot
NoTefEntries == {{}}
TefEntries == {{}} \cup {{s} : s \in Submitted}

\* a register access: READ or WRITE of the whole register, and the value
Io(op, reg, val) == [op |-> op, reg |-> reg, val |-> val]

CAN_INT == 28
CAN_INT_RXIF == 2
CAN_INT_TEFIF == 16

\* the RX elements the controller may hold when the handler runs
NoRxElements == {0}

\* One run of the handler: it reads CAN_INT and disables the interrupt.
\* E: the TEF contents at that time (CAN_INT_TEFIF is set when not empty);
\* N: the number of elements in the RX FIFO (CAN_INT_RXIF when not zero).
Ist(E, N) ==
    /\ irq_registered
    /\ irq_enabled
    /\ irq_enabled' = FALSE
    /\ \E done \in E, n \in N :
        /\ tef_done' = tef_done \cup done
        /\ tx_pending_mask' = IstRelease(tx_pending_mask, done)
        /\ rx_handled' = n
        /\ io_log' = Append(io_log, Io("read", CAN_INT,
                        (IF done # {} THEN Bits(CAN_INT_TEFIF) ELSE {})
                            \cup (IF n > 0 THEN Bits(CAN_INT_RXIF) ELSE {})))
    /\ UNCHANGED <<linkVars, openVars, dev_up, tx_fifos, payload_size, queue_stopped,
                   irq_registered, open_calls, txfifo_lock, pc, prio, last_ret, tx_msg, alloc_log,
                   tx_errors, echo_freed, txVars>>

(***************************************************************************)
(* The driver                                                              *)
(***************************************************************************)
\* struct mcp2517fd_obj_tx_msg as alloc_candev leaves it (zeroed): min_length,
\* data.cmd_addr, data.obj, data.payload, data.xfer.len, trigger.cmd_addr,
\* trigger.data, trigger.xfer.len; slot is its index in priv->tx_msg and ua
\* the value of CAN_FIFOUA read for it by the last mcp2517fd_setup_fifo
ZeroTxMsg ==
    [slot |-> 0, ua |-> 0, min_length |-> 0, data_cmd |-> <<0, 0>>,
     obj |-> <<0, 0, 0, 0, 0, 0, 0, 0>>,
     payload |-> [k \in 1..PayloadCanFd |-> 0],
     xfer_len |-> 0, trig_cmd |-> <<0, 0>>, trig_data |-> 0, trig_len |-> 0]

InitDriver ==
    /\ txm = ZeroTxMsg
    /\ spi_queue = <<>>
    /\ dev_up = FALSE
    /\ tx_fifos = 0
    /\ payload_size = 0
    /\ tx_pending_mask = {}
    /\ txfifo_lock = 0
    /\ queue_stopped = FALSE
    /\ irq_registered = FALSE
    /\ open_calls = <<>>
    /\ irq_enabled = FALSE
    /\ pc = [t \in Threads |-> "idle"]
    /\ prio = [t \in Threads |-> 0]
    /\ last_ret = "none"
    /\ tx_msg = <<>>
    /\ alloc_log = <<>>
    /\ tx_errors = 0
    /\ echo_freed = <<>>
    /\ tef_done = {}

\* the link is idle and no register access is under way
InitLinkIdle ==
    /\ link_log = <<>>
    /\ dev_mem = [a \in {} |-> 0]
    /\ c_pc = "none"
    /\ c_reg = 0
    /\ c_mask = {}
    /\ c_val = {}
    /\ c_ret = "none"
    /\ c_data = {}
    /\ c_oob = FALSE
    /\ bt = [kind |-> "none"]

\* mcp2517fd_open was not called yet; the clock configuration is the one
\* mcp2517fd_can_probe sets without device-tree overrides
InitOpenIdle ==
    /\ mcp_lock = 0
    /\ o_pc = "closed"
    /\ o_i = 0
    /\ o_ret = "none"
    /\ net_mtu = "CAN_MTU"
    /\ clock_pll = FALSE
    /\ ctrlmode = {}
    /\ clock_div2 = FALSE
    /\ clock_odiv = 10
    /\ rx_fifos = 0
    /\ rx_address_inc = 0
    /\ rx_address_start = 0
    /\ rx_address = 0
    /\ rx_address_end = 0
    /\ tef_address_start = 0
    /\ tef_address = 0
    /\ tef_address_end = 0
    /\ jiffies = 0
    /\ timeout = 0
    /\ since_check = 0
    /\ elapsed = 0
    /\ osc_polls = <<>>
    /\ fail_seen = {}
    /\ opens = 0
    /\ io_log = <<>>
    /\ rx_handled = 0

\* a controller in Configuration mode with its oscillator running
InitDevReady ==
    /\ dev_osc = {10}
    /\ dev_con = {}

Init == InitDriver /\ InitLinkIdle /\ InitOpenIdle /\ InitDevReady

Next ==
    \/ Open
    \/ Stop
    \/ Ist(NoTefEntries, NoRxElements)
    \/ \E t \in Threads : XmitDropInvalid(t)
    \/ \E t \in Threads : XmitLock(t)
    \/ \E t \in Threads : XmitRead(t)
    \/ \E t \in Threads : XmitBusy(t)
    \/ \E t \in Threads : XmitMark(t)
    \/ \E t \in Threads : XmitSend(t, ScenarioFrames, {TRUE})

Spec == Init /\ [][Next]_vars

\* one caller, every frame, spi_async may fail
NextXmit ==
    \/ Open
    \/ Stop
    \/ XmitDropInvalid(1)
    \/ XmitLock(1)
    \/ XmitRead(1)
    \/ XmitBusy(1)
    \/ XmitMark(1)
    \/ XmitSend(1, Frames, BOOLEAN)

SpecXmit == Init /\ [][NextXmit]_vars

\* one caller and the interrupt thread with transmit events
NextIrq ==
    \/ Open
    \/ Stop
    \/ Ist(TefEntries, NoRxElements)
    \/ XmitLock(1)
    \/ XmitRead(1)
    \/ XmitBusy(1)
    \/ XmitMark(1)
    \/ XmitSend(1, ScenarioFrames, {TRUE})

SpecIrq == Init /\ [][NextIrq]_vars

(***************************************************************************)
(* Link protocol codec: mcp2517fd_cmd_reset / _read_mask / _write_mask     *)
(***************************************************************************)
INSTRUCTION_RESET == 0
INSTRUCTION_READ == 12288
INSTRUCTION_WRITE == 8192
ADDRESS_MASK == 4095

\* registers the driver accesses: CAN_CON, CAN_NBTCFG, CAN_DBTCFG, MCP2517FD_OSC
CAN_CON == 0
CAN_NBTCFG == 4
CAN_DBTCFG == 8
MCP2517FD_OSC == 3584

\* mcp2517fd_calc_cmd_addr: the two header bytes; cmd and addr are u16
CalcCmdAddr(cmd, addr) ==
    LET c == Bits(cmd) \cup (Bits(addr) \cap (0..15) \cap Bits(ADDRESS_MASK))
    IN  <<Val(Shr(c, 8) \cap (0..7)), Val(c \cap (0..7))>>

\* if (!mask) return -EINVAL
MaskValid_Any(mask) == TRUE
MaskValid(mask) == mask # {}

\* first_byte = (ffs(mask) - 1) >> 3, last_byte = (fls(mask) - 1) >> 3
FirstByte_Zero(mask) == 0
FirstByte(mask) == (ffs(mask) - 1) \div 8
LastByte(mask) == (fls(mask) - 1) \div 8
LenByte(mask) == LastByte(mask) - FirstByte(mask) + 1

\* contents of the stack next to a u32 argument, as far as the model goes
StackBytes == {0, 165}

\* memcpy(txdata + 2, &data + first_byte, len_byte): &data is a u32 *, so
\* the source starts 4 * first_byte bytes after data; bytes at offsets
\* outside 0..3 are not part of data and come from the stack
WriteData(data, first, len, stack) ==
    [i \in 1..len |->
        LET off == 4 * first + (i - 1) IN
        IF off \in 0..3 THEN ByteOf(data, off) ELSE stack[i]]

\* spi_write_then_read(.., data + first_byte, len): data is a u32 *, so the
\* bytes received land 4 * first_byte bytes after *data; *data was set to 0
\* and keeps what falls on its own four bytes; then le32_to_cpu
ReadData(rx, first) ==
    UNION {ByteAt(rx[i], 4 * first + (i - 1)) :
            i \in {j \in DOMAIN rx : 4 * first + (j - 1) \in 0..3}}

\* whether an access of len bytes at u32 offset first leaves the u32
OutOfObject(first, len) == \E i \in 1..len : 4 * first + (i - 1) \notin 0..3

\* the controller: the address of a header, a write into and a read from its
\* register bytes
HdrAddr(tx) == (tx[1] % 16) * 256 + tx[2]
DevWrite(mem, tx) ==
    [a \in DOMAIN mem |->
        IF a - HdrAddr(tx) \in 0..(Len(tx) - 3)
        THEN tx[a - HdrAddr(tx) + 3] ELSE mem[a]]
DevRead(mem, tx, n) ==
    [i \in 1..n |->
        IF HdrAddr(tx) + i - 1 \in DOMAIN mem
        THEN mem[HdrAddr(tx) + i - 1] ELSE 0]

\* a transaction on the link: the bytes sent, the number of bytes read
Txn(op, tx, rx, ok) == [op |-> op, tx |-> tx, rx |-> rx, ok |-> ok]

\* mcp2517fd_cmd_reset
CmdReset ==
    /\ c_pc = "reset"
    /\ \E ok \in BOOLEAN :
        /\ link_log' = Append(link_log,
                Txn("reset", CalcCmdAddr(INSTRUCTION_RESET, 0), 0, ok))
        /\ c_ret' = IF ok THEN "OK" ELSE "EIO"
    /\ c_pc' = "write"
    /\ UNCHANGED <<drvVars, openVars, evVars,
                   dev_mem, c_reg, c_mask, c_val, c_data, c_oob, bt>>

\* mcp2517fd_cmd_write_mask(spi, reg, data, mask), then continue at `next`
CmdWriteMaskCall(reg, data, mask, next) ==
    /\ c_pc' = next
    /\ IF ~MaskValid(mask)
       THEN /\ c_ret' = "EINVAL"
            /\ UNCHANGED <<link_log, dev_mem, c_oob>>
       ELSE \E ok \in BOOLEAN, stack \in [1..LenByte(mask) -> StackBytes] :
            LET first == FirstByte(mask)
                len == LenByte(mask)
                tx == CalcCmdAddr(INSTRUCTION_WRITE, reg + first)
                        \o WriteData(data, first, len, stack)
            IN  /\ OutOfObject(first, len) \/ stack = [i \in 1..len |-> 0]
                /\ link_log' = Append(link_log, Txn("write", tx, 0, ok))
                /\ dev_mem' = IF ok THEN DevWrite(dev_mem, tx) ELSE dev_mem
                /\ c_oob' = (c_oob \/ OutOfObject(first, len))
                /\ c_ret' = IF ok THEN "OK" ELSE "EIO"

CmdWriteMask ==
    /\ c_pc = "write"
    /\ CmdWriteMaskCall(c_reg, c_val, c_mask, "read")
    /\ UNCHANGED <<drvVars, openVars, evVars,
                   c_reg, c_mask, c_val, c_data, bt>>

\* mcp2517fd_cmd_read_mask(spi, reg, &data, mask)
CmdReadMask ==
    /\ c_pc = "read"
    /\ c_pc' = "done"
    /\ IF ~MaskValid(c_mask)
       THEN /\ c_ret' = "EINVAL"
            /\ UNCHANGED <<link_log, c_data, c_oob>>
       ELSE \E ok \in BOOLEAN :
            LET first == FirstByte(c_mask)
                len == LenByte(c_mask)
                tx == CalcCmdAddr(INSTRUCTION_READ, c_reg + first)
            IN  /\ link_log' = Append(link_log, Txn("read", tx, len, ok))
                /\ c_data' = IF ok THEN ReadData(DevRead(dev_mem, tx, len), first)
                             ELSE {}
                /\ c_oob' = (c_oob \/ (ok /\ OutOfObject(first, len)))
                /\ c_ret' = IF ok THEN "OK" ELSE "EIO"
    /\ UNCHANGED <<drvVars, openVars, evVars,
                   dev_mem, c_reg, c_mask, c_val, bt>>

\* arguments of the register access functions
Regs == {CAN_CON, CAN_NBTCFG, MCP2517FD_OSC}
MaskEdges == {0, 7, 8, 15, 16, 23, 24, 31}
Masks == {{}, WordBits} \cup {{lo, hi} : lo \in MaskEdges, hi \in MaskEdges}
Vals == {{}, WordBits, FromLE32(<<120, 86, 52, 18>>)}

InitCodec ==
    /\ InitDriver
    /\ InitOpenIdle
    /\ InitDevReady
    /\ link_log = <<>>
    /\ c_pc = "reset"
    /\ c_reg \in Regs
    /\ c_mask \in Masks
    /\ c_val \in Vals
    /\ dev_mem \in {[a \in c_reg..(c_reg + 3) |-> b] : b \in {0, 255}}
    /\ c_ret = "none"
    /\ c_data = {}
    /\ c_oob = FALSE
    /\ bt = [kind |-> "none"]

NextCodec ==
    \/ CmdReset
    \/ CmdWriteMask
    \/ CmdReadMask

SpecCodec == InitCodec /\ [][NextCodec]_vars

(***************************************************************************)
(* Bit timing: mcp2517fd_do_set_nominal_bittiming / _data_bittiming        *)
(***************************************************************************)
CAN_NBTCFG_SJW_BITS == 7
CAN_NBTCFG_SJW_SHIFT == 0
CAN_NBTCFG_TSEG2_BITS == 7
CAN_NBTCFG_TSEG2_SHIFT == 8
CAN_NBTCFG_TSEG1_BITS == 8
CAN_NBTCFG_TSEG1_SHIFT == 16
CAN_NBTCFG_BRP_BITS == 8
CAN_NBTCFG_BRP_SHIFT == 24
CAN_DBTCFG_SJW_BITS == 4
CAN_DBTCFG_SJW_SHIFT == 0
CAN_DBTCFG_TSEG2_BITS == 4
CAN_DBTCFG_TSEG2_SHIFT == 8
CAN_DBTCFG_TSEG1_BITS == 5
CAN_DBTCFG_TSEG1_SHIFT == 16
CAN_DBTCFG_BRP_BITS == 8
CAN_DBTCFG_BRP_SHIFT == 24

\* x - 1 on u32
U32Dec(x) == IF x = 0 THEN WordBits ELSE Bits(x - 1)

\* the value written to CAN_NBTCFG
NominalWord_NoBias(b) ==
    Shl(U32Dec(b.sjw), CAN_NBTCFG_SJW_SHIFT)
        \cup Shl(U32Dec(b.phase_seg2), CAN_NBTCFG_TSEG2_SHIFT)
        \cup Shl(Bits(b.phase_seg1 + b.prop_seg), CAN_NBTCFG_TSEG1_SHIFT)
        \cup Shl(Bits(b.brp), CAN_NBTCFG_BRP_SHIFT)
NominalWord(b) ==
    Shl(U32Dec(b.sjw), CAN_NBTCFG_SJW_SHIFT)
        \cup Shl(U32Dec(b.phase_seg2), CAN_NBTCFG_TSEG2_SHIFT)
        \cup Shl(U32Dec(b.phase_seg1 + b.prop_seg), CAN_NBTCFG_TSEG1_SHIFT)
        \cup Shl(Bits(b.brp), CAN_NBTCFG_BRP_SHIFT)

\* the value written to CAN_DBTCFG
DataWord(b) ==
    Shl(U32Dec(b.sjw), CAN_DBTCFG_SJW_SHIFT)
        \cup Shl(U32Dec(b.phase_seg2), CAN_DBTCFG_TSEG2_SHIFT)
        \cup Shl(U32Dec(b.phase_seg1 + b.prop_seg), CAN_DBTCFG_TSEG1_SHIFT)
        \cup Shl(Bits(b.brp), CAN_DBTCFG_BRP_SHIFT)

\* mcp2517fd_cmd_write(spi, reg, val): a write with mask -1
BtWrite(reg, val) ==
    /\ c_reg' = reg
    /\ c_mask' = WordBits
    /\ c_val' = val
    /\ CmdWriteMaskCall(reg, val, WordBits, "done")
    /\ UNCHANGED <<drvVars, openVars, evVars,
                   c_data, bt>>

DoSetNominalBittiming ==
    /\ c_pc = "bt"
    /\ bt.kind = "nominal"
    /\ BtWrite(CAN_NBTCFG, NominalWord(bt))

DoSetDataBittiming ==
    /\ c_pc = "bt"
    /\ bt.kind = "data"
    /\ BtWrite(CAN_DBTCFG, DataWord(bt))

\* bit-timing parameters, inside and outside the register fields
BtInputs ==
    [kind : {"nominal", "data"},
     sjw : {1, 16, 17, 128, 129},
     phase_seg2 : {1, 16, 17, 128},
     phase_seg1 : {1, 2, 16, 128},
     prop_seg : {1, 2, 16, 128},
     brp : {1, 255, 256}]

InitBt ==
    /\ InitDriver
    /\ InitOpenIdle
    /\ InitDevReady
    /\ link_log = <<>>
    /\ bt \in BtInputs
    /\ c_pc = "bt"
    /\ c_reg = 0
    /\ c_mask = {}
    /\ c_val = {}
    /\ dev_mem = [a \in 0..11 |-> 0]
    /\ c_ret = "none"
    /\ c_data = {}
    /\ c_oob = FALSE

NextBt ==
    \/ DoSetNominalBittiming
    \/ DoSetDataBittiming

SpecBt == InitBt /\ [][NextBt]_vars

(***************************************************************************)
(* Registers used during bring-up                                          *)
(***************************************************************************)
MCP2517FD_OSC_PLLEN == 1
MCP2517FD_OSC_OSCDIS == 4
MCP2517FD_OSC_SCLKDIV == 16
MCP2517FD_OSC_CLKODIV_SHIFT == 5
MCP2517FD_OSC_CLKODIV_10 == 3
MCP2517FD_OSC_CLKODIV_4 == 2
MCP2517FD_OSC_CLKODIV_2 == 1
MCP2517FD_OSC_CLKODIV_1 == 0
MCP2517FD_OSC_PLLRDY == 256
MCP2517FD_OSC_OSCRDY == 1024
MCP2517FD_OSC_SCLKRDY == 4096
MCP2517FD_IOCON == 3588
MCP2517FD_ECCCON == 3596

CAN_CON_OPMOD_SHIFT == 21
CAN_CON_REQOP_SHIFT == 24
CAN_CON_OPMOD_MASK == 21..23
CAN_CON_REQOP_MASK == 24..26
CAN_CON_MODE_MIXED == 0
CAN_CON_MODE_INTERNAL_LOOPBACK == 2
CAN_CON_MODE_LISTENONLY == 3
CAN_CON_MODE_CONFIG == 4
CAN_CON_MODE_EXTERNAL_LOOPBACK == 5
CAN_CON_MODE_CAN2_0 == 6
CAN_CON_ISOCRCEN == 32
CAN_CON_RTXAT == 65536
CAN_CON_STEF == 524288
CAN_CON_DEFAULT ==
    {5, 6, 8, 19, 20} \cup Shl(Bits(3), 9)
        \cup Shl(Bits(CAN_CON_MODE_CONFIG), CAN_CON_OPMOD_SHIFT)
        \cup Shl(Bits(CAN_CON_MODE_CONFIG), CAN_CON_REQOP_SHIFT)
CAN_CON_DEFAULT_MASK ==
    (0..4) \cup {5, 6, 8} \cup (9..10) \cup {12, 16, 17, 18, 19, 20}
        \cup CAN_CON_OPMOD_MASK \cup CAN_CON_REQOP_MASK \cup {27} \cup (28..30)

CAN_TDC == 12
CAN_TBC == 16
CAN_TSCON == 20
CAN_TEFCON == 64
CAN_TEFUA == 72
RX_FIFO == 1
TX_FIFO(i) == 2 + i
CAN_FIFOCON(x) == 92 + 12 * (x - 1)
CAN_FIFOUA(x) == 100 + 12 * (x - 1)
CAN_FLTCON(x) == 464 + (x \div 4)
CAN_FLTOBJ(x) == 496 + 8 * x
CAN_FLTMASK(x) == 500 + 8 * x
FIFO_DATA(x) == 1024 + x

\* priv->con_val as mcp2517fd_setup computes it from the control mode
ConValFor(mode) ==
    Bits(CAN_CON_STEF)
        \cup (IF "FD_NON_ISO" \notin mode THEN Bits(CAN_CON_ISOCRCEN) ELSE {})
        \cup (IF "ONE_SHOT" \notin mode THEN Bits(CAN_CON_RTXAT) ELSE {})
ConVal == ConValFor(ctrlmode)

\* a mode in the REQOP field, and the OPMOD / REQOP fields of a CAN_CON value
ReqOp(mode) == Shl(Bits(mode), CAN_CON_REQOP_SHIFT)
OpModOf(con) == Val(Shr(con \cap CAN_CON_OPMOD_MASK, CAN_CON_OPMOD_SHIFT))
ReqOpOf(con) == Val(Shr(con \cap CAN_CON_REQOP_MASK, CAN_CON_REQOP_SHIFT))

(***************************************************************************)
(* The controller as the driver sees it over the link                      *)
(***************************************************************************)
\* the ready bits the oscillator register shows for a configuration
OscReadyBits(osc) ==
    Bits(MCP2517FD_OSC_OSCRDY)
        \cup (IF Bits(MCP2517FD_OSC_PLLEN) \subseteq osc THEN Bits(MCP2517FD_OSC_PLLRDY) ELSE {})
        \cup (IF Bits(MCP2517FD_OSC_SCLKDIV) \subseteq osc THEN Bits(MCP2517FD_OSC_SCLKRDY) ELSE {})

\* a register write as the controller takes it: the oscillator configuration
\* is replaced and the ready bits that still apply stay; CAN_CON takes the
\* value but OPMOD, which follows REQOP later
DevOscAfter(osc, val) ==
    (val \cap (0..6)) \cup IF Bits(MCP2517FD_OSC_OSCDIS) \subseteq val THEN {}
                           ELSE osc \cap OscReadyBits(val)
DevConAfter(con, val) == (val \ CAN_CON_OPMOD_MASK) \cup (con \cap CAN_CON_OPMOD_MASK)

\* a reset command: it only works in Configuration mode
DevConReset(con) == IF OpModOf(con) = CAN_CON_MODE_CONFIG THEN CAN_CON_DEFAULT ELSE con

\* the oscillator, the PLL or the divided clock becomes ready
DevOscReady ==
    /\ o_pc # "closed"
    /\ Bits(MCP2517FD_OSC_OSCDIS) \cap dev_osc = {}
    /\ \E b \in OscReadyBits(dev_osc) \ dev_osc : dev_osc' = dev_osc \cup {b}
    /\ UNCHANGED <<drvVars, linkVars, evVars, mcp_lock, o_pc, o_i, o_ret, net_mtu,
                   clock_pll, ctrlmode, clock_div2, clock_odiv, rx_fifos, rx_address_inc,
                   rx_address_start, rx_address, rx_address_end, tef_address_start,
                   tef_address, tef_address_end, jiffies, timeout, since_check,
                   elapsed, osc_polls, fail_seen, opens, dev_con>>

\* the controller enters the requested mode
DevModeSwitch ==
    /\ o_pc # "closed"
    /\ OpModOf(dev_con) # ReqOpOf(dev_con)
    /\ dev_con' = (dev_con \ CAN_CON_OPMOD_MASK)
                    \cup Shl(Bits(ReqOpOf(dev_con)), CAN_CON_OPMOD_SHIFT)
    /\ UNCHANGED <<drvVars, linkVars, evVars, mcp_lock, o_pc, o_i, o_ret, net_mtu,
                   clock_pll, ctrlmode, clock_div2, clock_odiv, rx_fifos, rx_address_inc,
                   rx_address_start, rx_address, rx_address_end, tef_address_start,
                   tef_address, tef_address_end, jiffies, timeout, since_check,
                   elapsed, osc_polls, fail_seen, opens, dev_osc>>

(***************************************************************************)
(* mcp2517fd_open step by step                                             *)
(***************************************************************************)
xmitVars == <<tx_pending_mask, txfifo_lock, pc, prio, last_ret, tx_msg, alloc_log,
              tx_errors, echo_freed, txVars, tef_done>>
cfgVars == <<clock_pll, ctrlmode, clock_div2, clock_odiv>>
entryVars == <<cfgVars, opens>>
ringVars == <<rx_fifos, rx_address_inc, rx_address_start, rx_address, rx_address_end,
              tef_address_start, tef_address, tef_address_end>>
oscVars == <<jiffies, timeout, since_check, elapsed, osc_polls>>
sizeVars == <<net_mtu, tx_fifos, payload_size>>

\* the places whose failure the caller has to tell apart: the oscillator
\* status check of the probe, the polling deadline of setup_osc, the final
\* CAN_CON check of the probe
\* calls of mcp2517fd_open in one run
MaxOpens == 2

BringUpFailures == {"fault", "timeout", "notfound"}

\* mcp2517fd_open returns ret after a failure at `place`:
\* mcp2517fd_open_clean, then open_unlock
OpenFail(ret, place) ==
    /\ irq_registered' = FALSE
    /\ open_calls' = open_calls \o OpenCleanCalls
    /\ irq_enabled' = FALSE
    /\ mcp_lock' = 0
    /\ o_pc' = "closed"
    /\ o_i' = 0
    /\ o_ret' = ret
    /\ fail_seen' = IF place \in BringUpFailures
                    THEN fail_seen \cup {<<place, ret>>} ELSE fail_seen
    /\ UNCHANGED <<dev_up, queue_stopped>>

\* mcp2517fd_open goes on at `next`
OpenGoes(next, i) ==
    /\ o_pc' = next
    /\ o_i' = i
    /\ UNCHANGED <<irq_registered, open_calls, irq_enabled, mcp_lock, o_ret, fail_seen, dev_up,
                   queue_stopped>>

\* a link transaction went through and the call goes on, or it failed and
\* open returns its error
OpenAfterIo(ok, next, i) == IF ok THEN OpenGoes(next, i) ELSE OpenFail("EIO", "link")

\* mcp2517fd_cmd_write / mcp2517fd_cmd_read as register accesses
\* io_log holds the accesses of the running call, or of the call that
\* brought the interface up: it is dropped when open fails
Logged(goes, entries) == io_log' = IF goes THEN io_log \o entries ELSE <<>>
RegWrite(goes, reg, val) == Logged(goes, <<Io("write", reg, val)>>)
RegRead(goes, reg, val) == Logged(goes, <<Io("read", reg, val)>>)
RegReset(goes) == Logged(goes, <<Io("reset", 0, {})>>)
\* a link transaction that failed while the call went on regardless
RegFailed(goes, reg) == Logged(goes, <<Io("failed", reg, {})>>)

\* open_candev, power on, mutex_lock(&priv->mcp_lock)
OpenEnter ==
    /\ ~dev_up
    /\ o_pc = "closed"
    /\ mcp_lock = 0
    /\ opens < MaxOpens
    /\ opens' = opens + 1
    /\ \E ok \in BOOLEAN :
        IF ok THEN /\ mcp_lock' = "open"
                   /\ o_pc' = "irq"
                   /\ o_ret' = "none"
                   /\ open_calls' = <<"open_candev", "power_on">>
              ELSE /\ o_ret' = "ECANDEV"
                   /\ open_calls' = <<>>
                   /\ UNCHANGED <<mcp_lock, o_pc>>
    /\ io_log' = <<>>
    /\ tx_errors' = 0
    /\ echo_freed' = <<>>
    /\ UNCHANGED <<linkVars, txVars, tx_pending_mask, txfifo_lock, pc, prio, last_ret, tx_msg,
                   alloc_log, tef_done, dev_up, tx_fifos, payload_size, queue_stopped,
                   irq_registered, irq_enabled, cfgVars, ringVars, oscVars, net_mtu,
                   o_i, fail_seen, dev_osc, dev_con, rx_handled>>

\* request_threaded_irq
OpenRequestIrq ==
    /\ o_pc = "irq"
    /\ \E ok \in BOOLEAN :
        IF ok THEN /\ irq_registered' = TRUE
                   /\ open_calls' = Append(open_calls, "request_irq")
                   /\ irq_enabled' = TRUE
                   /\ o_pc' = "probe"
                   /\ UNCHANGED <<mcp_lock, o_ret>>
              ELSE /\ mcp_lock' = 0
                   /\ o_pc' = "closed"
                   /\ o_ret' = "EIRQ"
                   /\ UNCHANGED <<irq_registered, irq_enabled>>
                   /\ open_calls' = open_calls \o <<"power_off", "close_candev">>
    /\ UNCHANGED <<linkVars, xmitVars, entryVars, ringVars, oscVars, sizeVars, evVars,
                   dev_up, queue_stopped, o_i, fail_seen, dev_osc, dev_con>>

\* mcp2517fd_hw_probe: spi_setup, the blind reset.  S: whether the reset
\* goes through on the link; hw_probe does not look at what it returns
HwProbeReset(S) ==
    /\ o_pc = "probe"
    /\ \E ok \in BOOLEAN, sent \in S :
        /\ IF sent THEN RegReset(ok) ELSE RegFailed(ok, 0)
        /\ dev_con' = IF ok /\ sent THEN DevConReset(dev_con) ELSE dev_con
        /\ OpenAfterIo(ok, "probe_osc", 0)
    /\ UNCHANGED <<linkVars, xmitVars, entryVars, ringVars, oscVars, sizeVars,
                   dev_osc, rx_handled>>

\* val & (MCP2517FD_OSC_OSCRDY | MCP2517FD_OSC_OSCDIS)
OscStatus_ReadyBit(val) == val \cap Bits(MCP2517FD_OSC_OSCRDY)
OscStatus(val) == val \cap (Bits(MCP2517FD_OSC_OSCRDY) \cup Bits(MCP2517FD_OSC_OSCDIS))

\* read MCP2517FD_OSC: the clock is ready, or disabled, or the status is
\* none of the two
HwProbeReadOsc ==
    /\ o_pc = "probe_osc"
    /\ \E ok \in BOOLEAN :
        LET st == OscStatus(dev_osc) IN
        /\ RegRead(ok /\ st \in {Bits(MCP2517FD_OSC_OSCRDY), Bits(MCP2517FD_OSC_OSCDIS)},
                   MCP2517FD_OSC, dev_osc)
        /\ IF ~ok THEN OpenFail("EIO", "link")
           ELSE IF st = Bits(MCP2517FD_OSC_OSCRDY) THEN OpenGoes("probe_con", 0)
           ELSE IF st = Bits(MCP2517FD_OSC_OSCDIS) THEN OpenGoes("probe_oscwr", 0)
           ELSE OpenFail("ENODEV", "fault")
    /\ UNCHANGED <<linkVars, xmitVars, entryVars, ringVars, oscVars, sizeVars,
                   dev_osc, dev_con, rx_handled>>

\* the clock was disabled: write the default clock setup
HwProbeWriteOsc ==
    /\ o_pc = "probe_oscwr"
    /\ \E ok \in BOOLEAN :
        LET val == Shl(Bits(MCP2517FD_OSC_CLKODIV_10), MCP2517FD_OSC_CLKODIV_SHIFT) IN
        /\ RegWrite(ok, MCP2517FD_OSC, val)
        /\ dev_osc' = IF ok THEN DevOscAfter(dev_osc, val) ELSE dev_osc
        /\ OpenAfterIo(ok, "probe_con", 0)
    /\ UNCHANGED <<linkVars, xmitVars, entryVars, ringVars, oscVars, sizeVars,
                   dev_con, rx_handled>>

\* read CAN_CON and compare with the Configuration mode defaults
HwProbeReadCon ==
    /\ o_pc = "probe_con"
    /\ \E ok \in BOOLEAN :
        /\ RegRead(ok, CAN_CON, dev_con)
        /\ IF ~ok THEN OpenFail("EIO", "link")
           ELSE IF dev_con \cap CAN_CON_DEFAULT_MASK = CAN_CON_DEFAULT
                THEN OpenGoes("setup", 0)
                ELSE OpenGoes("probe_force", 0)
    /\ UNCHANGED <<linkVars, xmitVars, entryVars, ringVars, oscVars, sizeVars,
                   dev_osc, dev_con, rx_handled>>

\* blindly force Configuration mode
HwProbeForce ==
    /\ o_pc = "probe_force"
    /\ \E ok \in BOOLEAN :
        /\ RegWrite(ok, CAN_CON, CAN_CON_DEFAULT)
        /\ dev_con' = IF ok THEN DevConAfter(dev_con, CAN_CON_DEFAULT) ELSE dev_con
        /\ OpenAfterIo(ok, "probe_reset", 0)
    /\ UNCHANGED <<linkVars, xmitVars, entryVars, ringVars, oscVars, sizeVars,
                   dev_osc, rx_handled>>

\* delay, reset, delay
HwProbeForceReset(S) ==
    /\ o_pc = "probe_reset"
    /\ \E sent \in S :
        /\ IF sent THEN RegReset(TRUE) ELSE RegFailed(TRUE, 0)
        /\ dev_con' = IF sent THEN DevConReset(dev_con) ELSE dev_con
    /\ OpenGoes("probe_final", 0)
    /\ UNCHANGED <<linkVars, xmitVars, entryVars, ringVars, oscVars, sizeVars,
                   dev_osc, rx_handled>>

\* (val & CAN_CON_DEFAULT_MASK) == CAN_CON_DEFAULT at the end of hw_probe
ProbeVerified_Always(con) == TRUE
ProbeVerified(con) == con \cap CAN_CON_DEFAULT_MASK = CAN_CON_DEFAULT

\* read CAN_CON and compare a final time
HwProbeFinal ==
    /\ o_pc = "probe_final"
    /\ \E ok \in BOOLEAN :
        /\ RegRead(ok /\ ProbeVerified(dev_con), CAN_CON, dev_con)
        /\ IF ~ok THEN OpenFail("EIO", "link")
           ELSE IF ~ProbeVerified(dev_con)
                THEN OpenFail("ENODEV", "notfound")
                ELSE OpenGoes("setup", 0)
    /\ UNCHANGED <<linkVars, xmitVars, entryVars, ringVars, oscVars, sizeVars,
                   dev_osc, dev_con, rx_handled>>

\* mcp2517fd_setup: mcp2517fd_clear_ram
SetupClearRam ==
    /\ o_pc = "setup"
    /\ \E ok \in BOOLEAN :
        /\ Logged(ok, <<Io("clear", FIFO_DATA(0), {})>>)
        /\ OpenAfterIo(ok, "osc_write", 0)
    /\ UNCHANGED <<linkVars, xmitVars, entryVars, ringVars, oscVars, sizeVars,
                   dev_osc, dev_con, rx_handled>>

(***************************************************************************)
(* mcp2517fd_setup_osc.  jiffies is an unsigned long: it counts modulo     *)
(* JiffiesWrap, and so does the sum that gives the deadline.               *)
(***************************************************************************)
\* jiffies counts modulo JiffiesWrap (2^BITS_PER_LONG in the kernel)
JiffiesWrap == 6
\* HZ / 2, in the same scale
MCP2517FD_OSC_POLLING_JIFFIES == 2
\* a pass through the loop takes at most this many jiffies
MaxTicksPerPoll == 1
\* polls of one setup_osc call that are kept apart in osc_polls
MaxPolls == 2

OscOdiv(odiv) ==
    CASE odiv = 10 -> MCP2517FD_OSC_CLKODIV_10
      [] odiv = 4  -> MCP2517FD_OSC_CLKODIV_4
      [] odiv = 2  -> MCP2517FD_OSC_CLKODIV_2
      [] odiv = 1  -> MCP2517FD_OSC_CLKODIV_1
      [] odiv = 0  -> MCP2517FD_OSC_CLKODIV_10
      [] OTHER     -> -1

OscVal ==
    (IF clock_pll THEN Bits(MCP2517FD_OSC_PLLEN) ELSE {})
        \cup (IF clock_div2 THEN Bits(MCP2517FD_OSC_SCLKDIV) ELSE {})
        \cup Shl(Bits(OscOdiv(clock_odiv)), MCP2517FD_OSC_CLKODIV_SHIFT)

OscWaitFor ==
    (IF clock_pll THEN Bits(MCP2517FD_OSC_PLLRDY) ELSE {})
        \cup (IF clock_div2 THEN Bits(MCP2517FD_OSC_SCLKRDY) ELSE {})
        \cup Bits(MCP2517FD_OSC_OSCRDY)

\* the polls of this call, the last MaxPolls - 1 of them folded into one
RecordPoll(polls, val) ==
    IF Len(polls) < MaxPolls THEN Append(polls, val)
    ELSE [polls EXCEPT ![MaxPolls] = val]

\* setup_osc returned ret to mcp2517fd_setup
OscReturns(ret) ==
    /\ o_pc' = "osc_done"
    /\ o_ret' = ret
    /\ UNCHANGED <<irq_registered, open_calls, irq_enabled, mcp_lock, o_i, fail_seen, dev_up,
                   queue_stopped>>

\* the clock divider switch, the write of MCP2517FD_OSC, and the deadline
\* taken from jiffies, whatever it is at that time
SetupOscWrite ==
    /\ o_pc = "osc_write"
    /\ osc_polls' = <<>>
    /\ since_check' = 0
    /\ elapsed' = 0
    /\ IF OscOdiv(clock_odiv) < 0
       THEN /\ OscReturns("EINVAL")
            /\ UNCHANGED <<io_log, dev_osc, jiffies, timeout>>
       ELSE \E ok \in BOOLEAN :
            /\ RegWrite(ok, MCP2517FD_OSC, OscVal)
            /\ dev_osc' = IF ok THEN DevOscAfter(dev_osc, OscVal) ELSE dev_osc
            /\ IF ok
               THEN /\ OpenGoes("osc_check", 0)
                    /\ \E now \in 0..(JiffiesWrap - 1) :
                        /\ jiffies' = now
                        /\ timeout' = (now + MCP2517FD_OSC_POLLING_JIFFIES) % JiffiesWrap
               ELSE /\ OscReturns("EIO")
                    /\ UNCHANGED <<jiffies, timeout>>
    /\ UNCHANGED <<linkVars, xmitVars, entryVars, ringVars, sizeVars, dev_con, rx_handled>>

\* while (jiffies <= timeout)
SetupOscCheck ==
    /\ o_pc = "osc_check"
    /\ since_check' = 0
    /\ IF jiffies <= timeout THEN OpenGoes("osc_read", 0) ELSE OscReturns("ENODEV")
    /\ UNCHANGED <<linkVars, xmitVars, entryVars, ringVars, sizeVars, evVars, jiffies,
                   timeout, elapsed, osc_polls, dev_osc, dev_con>>

\* the body of the loop: read MCP2517FD_OSC and compare with waitfor
SetupOscRead ==
    /\ o_pc = "osc_read"
    /\ \E ok \in BOOLEAN :
        IF ~ok THEN /\ OscReturns("EIO")
                    /\ UNCHANGED osc_polls
        ELSE /\ osc_polls' = RecordPoll(osc_polls, dev_osc)
             /\ IF OscWaitFor \subseteq dev_osc THEN OscReturns("OK")
                ELSE OpenGoes("osc_check", 0)
    /\ UNCHANGED <<linkVars, xmitVars, entryVars, ringVars, sizeVars, evVars, jiffies,
                   timeout, since_check, elapsed, dev_osc, dev_con>>

\* the timer interrupt advances jiffies while setup_osc polls
Tick ==
    /\ o_pc \in {"osc_check", "osc_read"}
    /\ since_check < MaxTicksPerPoll
    /\ since_check' = since_check + 1
    /\ jiffies' = (jiffies + 1) % JiffiesWrap
    /\ elapsed' = IF elapsed <= MCP2517FD_OSC_POLLING_JIFFIES THEN elapsed + 1 ELSE elapsed
    /\ UNCHANGED <<drvVars, linkVars, evVars, entryVars, ringVars, mcp_lock, o_pc, o_i,
                   o_ret, net_mtu, timeout, osc_polls, fail_seen, opens, dev_osc, dev_con>>

\* mcp2517fd_setup and mcp2517fd_open hand the result of setup_osc on; the
\* deadline is a local of setup_osc and jiffies is read nowhere else, so
\* both are dropped here
SetupOscReturn ==
    /\ o_pc = "osc_done"
    /\ IF o_ret = "OK"
       THEN /\ o_pc' = "setup_regs"
            /\ o_i' = 0
            /\ o_ret' = "none"
            /\ UNCHANGED <<irq_registered, open_calls, irq_enabled, mcp_lock, fail_seen, dev_up,
                           queue_stopped>>
       ELSE OpenFail(o_ret, IF o_ret = "ENODEV" THEN "timeout" ELSE "link")
    /\ Logged(o_ret = "OK", <<>>)
    /\ osc_polls' = <<>>
    /\ since_check' = 0
    /\ elapsed' = 0
    /\ jiffies' = 0
    /\ timeout' = 0
    /\ UNCHANGED <<linkVars, xmitVars, entryVars, ringVars, sizeVars, rx_handled,
                   dev_osc, dev_con>>

(***************************************************************************)
(* mcp2517fd_setup after the clock is up                                   *)
(***************************************************************************)
MCP2517FD_ECCCON_ECCEN == 1
MCP2517FD_IOCON_TXCANOD == 268435456
MCP2517FD_IOCON_INTOD == 536870912
gpio_mode_in == 16777217
CAN_TDC_EDGFLTEN == 33554432
CAN_TSCON_TBCEN == 16777216

\* priv->can.clock.freq / 1000000 for a 4 MHz crystal with the PLL and for a
\* 20 MHz crystal without it
ClockMHz == IF clock_pll THEN 4 * 10 ELSE 20

\* the register writes of mcp2517fd_setup between setup_osc and setup_fifo
SetupWrites ==
    << <<MCP2517FD_ECCCON, Bits(MCP2517FD_ECCCON_ECCEN)>>,
       <<MCP2517FD_IOCON, Bits(MCP2517FD_IOCON_TXCANOD) \cup Bits(MCP2517FD_IOCON_INTOD)
                              \cup Bits(gpio_mode_in) \cup Shl(Bits(gpio_mode_in), 1)>>,
       <<CAN_TDC, Bits(CAN_TDC_EDGFLTEN)>>,
       <<CAN_TBC, {}>>,
       <<CAN_TSCON, Bits(CAN_TSCON_TBCEN) \cup Bits(ClockMHz)>>,
       <<CAN_INT, {}>> >>

SetupRegs ==
    /\ o_pc = "setup_regs"
    /\ \E ok \in BOOLEAN :
        /\ RegWrite(ok, SetupWrites[o_i + 1][1], SetupWrites[o_i + 1][2])
        /\ IF o_i + 1 < Len(SetupWrites) THEN OpenAfterIo(ok, "setup_regs", o_i + 1)
           ELSE OpenAfterIo(ok, "fifo_size", 0)
    /\ UNCHANGED <<linkVars, xmitVars, entryVars, ringVars, oscVars, sizeVars,
                   dev_osc, dev_con, rx_handled>>

(***************************************************************************)
(* mcp2517fd_setup_fifo                                                    *)
(***************************************************************************)
RxFifosCan == 32
RxFifosCanFd == 17
SizeofObjRx == 12
SizeofObjTef == 12
SizeofObjTx == 8
NumFilters == 32
CAN_TXQCON_PLSIZE_8 == 0
CAN_TXQCON_PLSIZE_64 == 7
CAN_TEFCON_TEFTSEN == 32
CAN_TEFCON_FSIZE_SHIFT == 24
CAN_FIFOCON_TFNRFNIE == 1
CAN_FIFOCON_TFHRFHIE == 2
CAN_FIFOCON_TFERFFIE == 4
CAN_FIFOCON_RXTSEN == 32
CAN_FIFOCON_TXEN == 128
CAN_FIFOCON_FRESET == 1024
CAN_FIFOCON_TXPRI_SHIFT == 16
CAN_FIFOCON_FSIZE_SHIFT == 24
CAN_FIFOCON_PLSIZE_SHIFT == 29

FifoRxFifos_Classic(mtu) == RxFifosCan
FifoRxFifos(mtu) == IF mtu = "CAN_MTU" THEN RxFifosCan ELSE RxFifosCanFd
FifoRxInc(mtu) == SizeofObjRx + FifoPayload(mtu)
FifoPayloadMode(mtu) == IF mtu = "CAN_MTU" THEN CAN_TXQCON_PLSIZE_8
                        ELSE CAN_TXQCON_PLSIZE_64

\* what the controller reports in CAN_TEFUA and CAN_FIFOUA(x) for the FIFOs
\* the driver configured: TEF, RX FIFO and TX FIFOs one after the other in
\* RAM.  The addresses are computed when the controller leaves Configuration
\* mode; until then the registers read as after reset.
DevTefUa == 0
DevRxUa == DevTefUa + tx_fifos * SizeofObjTef
DevTxUa(i) == DevRxUa + rx_fifos * rx_address_inc + i * (SizeofObjTx + payload_size)
DevUa(ua) == IF OpModOf(dev_con) = CAN_CON_MODE_CONFIG THEN 0 ELSE ua

\* net->mtu: the two values can_change_mtu accepts, and any other value
MtuValues == Mtus \cup {"other"}

\* the switch on net->mtu and the write of CAN_TEFCON; in the default case
\* the log is kept as it is, with no access added
SetupFifoSize ==
    /\ o_pc = "fifo_size"
    /\ \E mtu \in MtuValues, ok \in BOOLEAN :
        /\ net_mtu' = mtu
        /\ IF mtu \in Mtus
           THEN /\ payload_size' = FifoPayload(mtu)
                /\ rx_fifos' = FifoRxFifos(mtu)
                /\ tx_fifos' = FifoTxFifos(mtu)
                /\ rx_address_inc' = FifoRxInc(mtu)
                /\ RegWrite(ok, CAN_TEFCON, Bits(CAN_TEFCON_TEFTSEN)
                        \cup Shl(Bits(FifoTxFifos(mtu) - 1), CAN_TEFCON_FSIZE_SHIFT))
                /\ OpenAfterIo(ok, "fifo_rx", 0)
           ELSE /\ UNCHANGED <<payload_size, rx_fifos, tx_fifos, rx_address_inc, io_log>>
                /\ OpenFail("EINVAL", "arg")
    /\ UNCHANGED <<linkVars, xmitVars, entryVars, oscVars, rx_address_start, rx_address,
                   rx_address_end, tef_address_start, tef_address, tef_address_end,
                   dev_osc, dev_con, rx_handled>>

\* the RX FIFO
SetupFifoRx ==
    /\ o_pc = "fifo_rx"
    /\ \E ok \in BOOLEAN :
        /\ RegWrite(ok, CAN_FIFOCON(RX_FIFO),
                    Shl(Bits(FifoPayloadMode(net_mtu)), CAN_FIFOCON_PLSIZE_SHIFT)
                        \cup Shl(Bits(rx_fifos - 1), CAN_FIFOCON_FSIZE_SHIFT)
                        \cup Bits(CAN_FIFOCON_RXTSEN) \cup Bits(CAN_FIFOCON_FRESET)
                        \cup Bits(CAN_FIFOCON_TFERFFIE) \cup Bits(CAN_FIFOCON_TFHRFHIE)
                        \cup Bits(CAN_FIFOCON_TFNRFNIE))
        /\ OpenAfterIo(ok, "fifo_flt", 0)
    /\ UNCHANGED <<linkVars, xmitVars, entryVars, ringVars, oscVars, sizeVars,
                   dev_osc, dev_con, rx_handled>>

\* clear all filters: CAN_FLTOBJ(i), CAN_FLTMASK(i), CAN_FLTCON(i) for each i
FilterReg(k) ==
    LET i == k \div 3 IN
    CASE k % 3 = 0 -> CAN_FLTOBJ(i)
      [] k % 3 = 1 -> CAN_FLTMASK(i)
      [] OTHER     -> CAN_FLTCON(i)

\* the loop writes until a write fails; n writes were made
SetupFifoFilters ==
    /\ o_pc = "fifo_flt"
    /\ \E n \in 1..(3 * NumFilters), ok \in BOOLEAN :
        /\ ~ok \/ n = 3 * NumFilters
        /\ Logged(ok, [k \in 1..n |-> Io("write", FilterReg(k - 1), {})])
        /\ OpenAfterIo(ok, "fifo_flt0", 0)
    /\ UNCHANGED <<linkVars, xmitVars, entryVars, ringVars, oscVars, sizeVars,
                   dev_osc, dev_con, rx_handled>>

\* the field of filter x in its CAN_FLTCON register
CAN_FILCON_SHIFT(x) == (x % 4) * 8
CAN_FILCON_MASK(x) == {b + CAN_FILCON_SHIFT(x) : b \in 0..3}
CAN_FIFOCON_FLTEN(x) == {7 + CAN_FILCON_SHIFT(x)}

Filter0Data == CAN_FIFOCON_FLTEN(0) \cup Shl(Bits(1), CAN_FILCON_SHIFT(0))
Filter0Mask == CAN_FILCON_MASK(0) \cup CAN_FIFOCON_FLTEN(0)

\* mcp2517fd_cmd_write_mask with a mask inside the first byte of the
\* register: one byte goes over the link, to the address of the register
RegWriteMask(goes, reg, data, mask) ==
    Logged(goes, <<Io(IF LenByte(mask) = 1 THEN "write1" ELSE "write",
                      reg + FirstByte(mask), data \cap mask)>>)

\* the one RX filter that is required: filter 0 enabled and routed to FIFO 1
SetupFifoFilter0 ==
    /\ o_pc = "fifo_flt0"
    /\ \E ok \in BOOLEAN :
        /\ RegWriteMask(ok, CAN_FLTCON(0), Filter0Data, Filter0Mask)
        /\ OpenAfterIo(ok, "fifo_tx", 0)
    /\ UNCHANGED <<linkVars, xmitVars, entryVars, ringVars, oscVars, sizeVars,
                   dev_osc, dev_con, rx_handled>>

\* the value written to CAN_FIFOCON of TX FIFO i: one element, priority i
TxFifoCon(i) ==
    Bits(CAN_FIFOCON_FRESET)
        \cup Shl(Bits(FifoPayloadMode(net_mtu)), CAN_FIFOCON_PLSIZE_SHIFT)
        \cup Shl(Bits(i), CAN_FIFOCON_TXPRI_SHIFT)
        \cup Bits(CAN_FIFOCON_TXEN)

\* the TX FIFOs; the loop writes until a write fails; n writes were made
SetupFifoTx ==
    /\ o_pc = "fifo_tx"
    /\ \E n \in 1..tx_fifos, ok \in BOOLEAN :
        /\ ~ok \/ n = tx_fifos
        /\ Logged(ok, [k \in 1..n |->
                          Io("write", CAN_FIFOCON(TX_FIFO(k - 1)), TxFifoCon(k - 1))])
        /\ OpenAfterIo(ok, "fifo_mode", 0)
    /\ UNCHANGED <<linkVars, xmitVars, entryVars, ringVars, oscVars, sizeVars,
                   dev_osc, dev_con, rx_handled>>

\* request Internal Loopback mode to get the pointers
SetupFifoLoopback ==
    /\ o_pc = "fifo_mode"
    /\ \E ok \in BOOLEAN :
        LET val == ConVal \cup ReqOp(CAN_CON_MODE_INTERNAL_LOOPBACK) IN
        /\ RegWrite(ok, CAN_CON, val)
        /\ dev_con' = IF ok THEN DevConAfter(dev_con, val) ELSE dev_con
        /\ OpenAfterIo(ok, "fifo_ua", 0)
    /\ UNCHANGED <<linkVars, xmitVars, entryVars, ringVars, oscVars, sizeVars,
                   dev_osc, rx_handled>>

\* the addresses of the TX FIFOs, from the last to the first; each one is
\* stored as rx_address_end.  The loop reads until a read fails; n reads
\* were made, the k-th one of TX FIFO tx_fifos - k
SetupFifoTxUa ==
    /\ o_pc = "fifo_ua"
    /\ \E n \in 1..tx_fifos, ok \in BOOLEAN :
        LET stored == IF ok THEN n ELSE n - 1
            val(k) == IF k <= stored THEN DevUa(DevTxUa(tx_fifos - k)) ELSE 0
        IN  /\ ~ok \/ n = tx_fifos
            /\ Logged(ok, [k \in 1..n |->
                              Io("read", CAN_FIFOUA(TX_FIFO(tx_fifos - k)), Bits(val(k)))])
            /\ rx_address_end' = IF stored > 0 THEN FIFO_DATA(val(stored))
                                 ELSE rx_address_end
            /\ OpenAfterIo(ok, "fifo_rxua", 0)
    /\ UNCHANGED <<linkVars, xmitVars, entryVars, oscVars, sizeVars, rx_fifos,
                   rx_address_inc, rx_address_start, rx_address, tef_address_start,
                   tef_address, tef_address_end, dev_osc, dev_con, rx_handled>>

\* the address of the RX FIFO
SetupFifoRxUa ==
    /\ o_pc = "fifo_rxua"
    /\ \E ok \in BOOLEAN :
        LET val == IF ok THEN DevUa(DevRxUa) ELSE 0 IN
        /\ RegRead(ok, CAN_FIFOUA(RX_FIFO), Bits(val))
        /\ rx_address_start' = IF ok THEN FIFO_DATA(val) ELSE rx_address_start
        /\ rx_address' = IF ok THEN FIFO_DATA(val) ELSE rx_address
        /\ OpenAfterIo(ok, "fifo_tefua", 0)
    /\ UNCHANGED <<linkVars, xmitVars, entryVars, oscVars, sizeVars, rx_fifos,
                   rx_address_inc, rx_address_end, tef_address_start, tef_address,
                   tef_address_end, dev_osc, dev_con, rx_handled>>

\* the address of the TEF; its end is the start of the RX FIFO
SetupFifoTefUa ==
    /\ o_pc = "fifo_tefua"
    /\ \E ok \in BOOLEAN :
        LET val == IF ok THEN DevUa(DevTefUa) ELSE 0 IN
        /\ RegRead(ok, CAN_TEFUA, Bits(val))
        /\ tef_address_start' = IF ok THEN 1024 + val ELSE tef_address_start
        /\ tef_address' = IF ok THEN 1024 + val ELSE tef_address
        /\ tef_address_end' = IF ok THEN rx_address_start ELSE tef_address_end
        /\ OpenAfterIo(ok, "fifo_config", 0)
    /\ UNCHANGED <<linkVars, xmitVars, entryVars, oscVars, sizeVars, rx_fifos,
                   rx_address_inc, rx_address_start, rx_address, rx_address_end,
                   dev_osc, dev_con, rx_handled>>

\* back into Configuration mode
SetupFifoConfig ==
    /\ o_pc = "fifo_config"
    /\ \E ok \in BOOLEAN :
        LET val == ConVal \cup ReqOp(CAN_CON_MODE_CONFIG) IN
        /\ RegWrite(ok, CAN_CON, val)
        /\ dev_con' = IF ok THEN DevConAfter(dev_con, val) ELSE dev_con
        /\ OpenAfterIo(ok, "bittiming", 0)
    /\ UNCHANGED <<linkVars, xmitVars, entryVars, ringVars, oscVars, sizeVars,
                   dev_osc, rx_handled>>

(***************************************************************************)
(* The end of mcp2517fd_open                                               *)
(***************************************************************************)
\* the bit timing open_candev computed
OpenBittiming ==
    [kind |-> "nominal", sjw |-> 1, phase_seg2 |-> 2, phase_seg1 |-> 3, prop_seg |-> 2,
     brp |-> 1]

\* mcp2517fd_do_set_nominal_bittiming; open ignores what it returns
OpenSetBittiming(S) ==
    /\ o_pc = "bittiming"
    /\ \E sent \in S :
        IF sent THEN RegWrite(TRUE, CAN_NBTCFG, NominalWord(OpenBittiming))
        ELSE RegFailed(TRUE, CAN_NBTCFG)
    /\ OpenGoes("normal", 0)
    /\ UNCHANGED <<linkVars, xmitVars, entryVars, ringVars, oscVars, sizeVars,
                   dev_osc, dev_con, rx_handled>>

\* the mode for the CAN_CTRLMODE_ flags LOOPBACK, LISTENONLY and FD

NormalModeType_FdFirst(mode) ==
    IF "FD" \in mode THEN CAN_CON_MODE_MIXED
    ELSE IF "LOOPBACK" \in mode THEN CAN_CON_MODE_EXTERNAL_LOOPBACK
    ELSE IF "LISTENONLY" \in mode THEN CAN_CON_MODE_LISTENONLY
    ELSE CAN_CON_MODE_CAN2_0
NormalModeType(mode) ==
    IF "LOOPBACK" \in mode THEN CAN_CON_MODE_EXTERNAL_LOOPBACK
    ELSE IF "LISTENONLY" \in mode THEN CAN_CON_MODE_LISTENONLY
    ELSE IF "FD" \in mode THEN CAN_CON_MODE_MIXED
    ELSE CAN_CON_MODE_CAN2_0

\* mcp2517fd_set_normal_mode, then netif_wake_queue and mutex_unlock
OpenSetNormalMode ==
    /\ o_pc = "normal"
    /\ \E written \in BOOLEAN, ok \in BOOLEAN :
        LET val == ConVal \cup ReqOp(NormalModeType(ctrlmode)) IN
        /\ RegWrite(written /\ ok, CAN_CON, val)
        /\ dev_con' = IF written THEN DevConAfter(dev_con, val) ELSE dev_con
        /\ IF written /\ ok
           THEN /\ queue_stopped' = FALSE
                /\ dev_up' = TRUE
                /\ mcp_lock' = 0
                /\ o_pc' = "closed"
                /\ o_i' = 0
                /\ o_ret' = "OK"
                /\ UNCHANGED <<irq_registered, irq_enabled, fail_seen>>
                /\ open_calls' = Append(open_calls, "wake_queue")
           ELSE OpenFail("EIO", "link")
    /\ UNCHANGED <<linkVars, xmitVars, entryVars, ringVars, oscVars, sizeVars,
                   dev_osc, rx_handled>>

\* the controller holds at most this many RX elements when it raises the
\* interrupt
MaxRx == 2
RxElements == 0..MaxRx

\* the controller raises its interrupt once the interface is up
OpenIst ==
    /\ dev_up
    /\ Ist(NoTefEntries, RxElements)

\* the controller before open: the oscillator ready, disabled, or the PLL on
\* and nothing locked; in Configuration mode or still in CAN 2.0 mode
InitDevAny ==
    /\ dev_osc \in {{5, 6, 10}, {2, 5, 6}, {0, 5, 6}}
    /\ dev_con \in {CAN_CON_DEFAULT,
                    ConValFor({}) \cup ReqOp(CAN_CON_MODE_CAN2_0)
                        \cup Shl(Bits(CAN_CON_MODE_CAN2_0), CAN_CON_OPMOD_SHIFT)}

\* mcp2517fd_can_probe: the PLL is used for crystals of 4 MHz and below
\* M: the control modes the interface may be configured with
InitOpenMode(M) ==
    /\ InitDriver
    /\ InitLinkIdle
    /\ mcp_lock = 0
    /\ o_pc = "closed"
    /\ o_i = 0
    /\ o_ret = "none"
    /\ net_mtu = "CAN_MTU"
    /\ clock_pll \in BOOLEAN
    /\ ctrlmode \in M
    /\ clock_div2 = FALSE
    /\ clock_odiv = 10
    /\ rx_fifos = 0
    /\ rx_address_inc = 0
    /\ rx_address_start = 0
    /\ rx_address = 0
    /\ rx_address_end = 0
    /\ tef_address_start = 0
    /\ tef_address = 0
    /\ tef_address_end = 0
    /\ jiffies = 0
    /\ timeout = 0
    /\ since_check = 0
    /\ elapsed = 0
    /\ osc_polls = <<>>
    /\ fail_seen = {}
    /\ opens = 0
    /\ io_log = <<>>
    /\ rx_handled = 0
    /\ InitDevAny

\* the interface with the control mode it has when nothing was configured
InitOpen == InitOpenMode({{}})

NextOpen ==
    \/ OpenEnter
    \/ OpenRequestIrq
    \/ HwProbeReset({TRUE})
    \/ HwProbeReadOsc
    \/ HwProbeWriteOsc
    \/ HwProbeReadCon
    \/ HwProbeForce
    \/ HwProbeForceReset({TRUE})
    \/ HwProbeFinal
    \/ SetupClearRam
    \/ SetupOscWrite
    \/ SetupOscCheck
    \/ SetupOscRead
    \/ Tick
    \/ SetupOscReturn
    \/ SetupRegs
    \/ SetupFifoSize
    \/ SetupFifoRx
    \/ SetupFifoFilters
    \/ SetupFifoFilter0
    \/ SetupFifoTx
    \/ SetupFifoLoopback
    \/ SetupFifoTxUa
    \/ SetupFifoRxUa
    \/ SetupFifoTefUa
    \/ SetupFifoConfig
    \/ OpenSetBittiming({TRUE})
    \/ OpenSetNormalMode
    \/ DevOscReady
    \/ DevModeSwitch
    \/ OpenIst
    \/ Stop

SpecOpen == InitOpen /\ [][NextOpen]_vars

\* time advances and every link transaction of the polling loop returns
SpecOpenLive ==
    /\ InitOpen
    /\ [][NextOpen]_vars
    /\ WF_vars(SetupOscCheck)
    /\ WF_vars(SetupOscRead)
    /\ WF_vars(Tick)

(***************************************************************************)
(* TX slot allocator                                                       *)
(***************************************************************************)
\* the slots allocated since the bitmap was empty are pairwise distinct
\* indices below tx_fifos, and no caller is refused before tx_fifos slots
\* were allocated
C1_State ==
    /\ LET given == {alloc_log[i] : i \in DOMAIN alloc_log} IN
        /\ given \subseteq 0..(tx_fifos - 1)
        /\ Cardinality(given) = Len(alloc_log)
    /\ \A t \in Threads :
        pc[t] = "decide" /\ prio[t] >= tx_fifos => Len(alloc_log) = tx_fifos

\* a refused caller returns NETDEV_TX_BUSY and leaves the bitmap as it was
C1_Step ==
    \A t \in Threads :
        pc[t] = "decide" /\ prio[t] >= tx_fifos /\ pc'[t] # "decide"
            => /\ tx_pending_mask' = tx_pending_mask
               /\ last_ret' = "BUSY"

\* C1: with all tx_fifos slots free, tx_fifos allocations by concurrent
\* callers, in any interleaving, all succeed with pairwise distinct indices in
\* 0..tx_fifos-1; any further allocation returns Busy and leaves the bitmap
\* unchanged.
C1_ConcurrentAllocation == [](C1_State) /\ [][C1_Step]_vars

\* all 30 slots of the classic sizing were allocated, a further caller was
\* refused while another caller is still sending
C1_Witness ==
    /\ tx_fifos = TxFifosCan
    /\ Len(alloc_log) = TxFifosCan
    /\ last_ret = "BUSY"
    /\ \E t \in Threads : pc[t] = "send"

\* the slots that are free once the transmit events handled so far are
\* taken as releases
FreeSlots == {i \in 0..(tx_fifos - 1) : i \notin tx_pending_mask \/ i \in tef_done}

\* C2: allocate returns the lowest free index below tx_fifos and Busy only
\* when no index is free; after the release of slot s by a TEF entry the next
\* allocation succeeds and uses slot s.
C2_LowestFreeAfterRelease ==
    \A t \in Threads :
        pc[t] = "decide" =>
            IF FreeSlots = {} THEN prio[t] >= tx_fifos
            ELSE prio[t] = Min(FreeSlots)

\* C3: bit s of tx_pending_mask is set only by the allocation that returns
\* s, and is cleared only when a TEF entry for s is processed or stop aborts
\* the slot; no other step sets or clears it.
C3_BitSetUntilReleased ==
    [][\A s \in WordBits :
        /\ s \notin tx_pending_mask /\ s \in tx_pending_mask'
            => \E t \in Threads :
                pc[t] = "decide" /\ prio[t] = s /\ pc'[t] = "send"
        /\ s \in tx_pending_mask /\ s \notin tx_pending_mask'
            => \/ dev_up /\ ~dev_up'
               \/ s \in tef_done']_vars

\* two slots are pending, the later one just allocated and not yet sent, and
\* the interrupt thread has run in between
C3_Witness ==
    /\ \E t \in Threads : pc[t] = "send" /\ prio[t] \in tx_pending_mask
    /\ Cardinality(tx_pending_mask) >= 2
    /\ irq_registered /\ ~irq_enabled

\* C4: when the interrupt thread handles an interrupt whose flags show a
\* TEF entry, the slot the entry names is released (its bit is clear).
C4_TefReleasesSlot == \A s \in tef_done : s \notin tx_pending_mask

(***************************************************************************)
(* TX message objects                                                      *)
(***************************************************************************)
\* C5: a standard-id classic frame of length L <= 8 sent in classic mode is
\* encoded with id = can_id & 0x7FF, IDE = 0 and DLC = L whatever its slot,
\* and the first allocation uses slot 0.
C5_StandardClassicFrame ==
    /\ Len(alloc_log) >= 1 => alloc_log[1] = 0
    /\ \A i \in DOMAIN tx_msg :
        LET m == tx_msg[i] IN
        payload_size = PayloadCan /\ ~m.frame.fd /\ ~m.frame.eff /\ m.frame.len <= 8
            => /\ MsgId(m) = CanId(m.frame) \cap CAN_SFF_MASK
               /\ CAN_OBJ_FLAGS_IDE \cap MsgFlags(m) = {}
               /\ MsgDlc(m) = m.frame.len

\* C6: each flag bit of an encoded TX object is set exactly when its
\* condition holds, DLC holds the data length code and SEQ the slot index.
C6_FlagsIndependent ==
    \A i \in DOMAIN tx_msg :
        LET m == tx_msg[i]
            f == m.frame
            has(bit) == bit \subseteq MsgFlags(m)
        IN  /\ has(CAN_OBJ_FLAGS_IDE) <=> f.eff
            /\ has(CAN_OBJ_FLAGS_RTR) <=> f.rtr
            /\ has(CAN_OBJ_FLAGS_BRS) <=> f.brs
            /\ has(CAN_OBJ_FLAGS_ESI) <=> f.esi
            /\ has(CAN_OBJ_FLAGS_FDF) <=> f.fd
            /\ MsgDlc(m) = (IF f.fd THEN can_len2dlc(f.len) ELSE f.len)
            /\ MsgSeq(m) = m.slot

(***************************************************************************)
(* Link protocol codec                                                     *)
(***************************************************************************)
\* C7: a masked read or masked write called with mask = 0 fails with -EINVAL
\* and issues no link transaction.
C7_MaskZeroRejected ==
    c_mask = {} =>
        /\ c_pc \in {"read", "done"} => c_ret = "EINVAL"
        /\ \A i \in DOMAIN link_log : link_log[i].op = "reset"

\* both calls were made with mask = 0 and only the reset went over the link
C7_Witness ==
    /\ c_mask = {}
    /\ c_pc = "done"
    /\ c_ret = "EINVAL"
    /\ Len(link_log) = 1

\* the byte span of a non-zero mask and the header of an access to it
SpanLo(mask) == Min(mask) \div 8
SpanHi(mask) == Max(mask) \div 8
SpanHeader(opcode, reg, mask) ==
    LET h == opcode + ((reg + SpanLo(mask)) % 4096) IN <<h \div 256, h % 256>>

\* C8: for a non-zero mask, masked read and write address exactly the bytes
\* floor(lowest set bit / 8) .. floor(highest set bit / 8) of the register,
\* 1 to 4 bytes starting at reg + first byte, behind the big-endian header
\* opcode | (address & 0xFFF), READ = 0x3000, WRITE = 0x2000; RESET = 0x0000
\* has no payload.
C8_MinimalSpanAndHeader ==
    \A i \in DOMAIN link_log :
        LET x == link_log[i] IN
        IF x.op = "reset" THEN x.tx = <<0, 0>> /\ x.rx = 0
        ELSE /\ c_mask # {}
             /\ LET n == SpanHi(c_mask) - SpanLo(c_mask) + 1 IN
                /\ n \in 1..4
                /\ HdrAddr(x.tx) = c_reg + SpanLo(c_mask)
                /\ IF x.op = "write"
                   THEN /\ SubSeq(x.tx, 1, 2) = SpanHeader(8192, c_reg, c_mask)
                        /\ Len(x.tx) = 2 + n
                        /\ x.rx = 0
                   ELSE /\ x.tx = SpanHeader(12288, c_reg, c_mask)
                        /\ x.rx = n

\* a write and a read of bytes 1..2 of the oscillator register went over the link
C8_Witness ==
    /\ c_pc = "done"
    /\ c_reg = MCP2517FD_OSC
    /\ c_mask # {}
    /\ SpanLo(c_mask) = 1 /\ SpanHi(c_mask) = 2
    /\ Len(link_log) = 3

\* C9: a masked write followed by a masked read of the same register with the
\* same non-zero mask returns the written value on the mask's bits; the write
\* sends bytes first..last of the little-endian value.
C9_WriteThenRead ==
    (/\ c_pc = "done"
     /\ c_mask # {}
     /\ \A i \in DOMAIN link_log : link_log[i].ok)
        => /\ c_data \cap c_mask = c_val \cap c_mask
           /\ \A i \in DOMAIN link_log :
                link_log[i].op = "write" =>
                    SubSeq(link_log[i].tx, 3, Len(link_log[i].tx))
                        = [k \in 1..(SpanHi(c_mask) - SpanLo(c_mask) + 1)
                            |-> ByteOf(c_val, SpanLo(c_mask) + k - 1)]

(***************************************************************************)
(* Bit timing                                                              *)
(***************************************************************************)
\* the register word that went over the link, and a field of it
BtWritten == FromLE32(SubSeq(link_log[Len(link_log)].tx, 3, 6))
BtField(w, shift, bits) == Val(Shr(w, shift) \cap (0..(bits - 1)))
BtFieldBits(shift, bits) == shift..(shift + bits - 1)

\* the field layout of CAN_NBTCFG and CAN_DBTCFG: <<shift, bits>>
BtLayout(kind) ==
    IF kind = "nominal"
    THEN [sjw |-> <<CAN_NBTCFG_SJW_SHIFT, CAN_NBTCFG_SJW_BITS>>,
          tseg2 |-> <<CAN_NBTCFG_TSEG2_SHIFT, CAN_NBTCFG_TSEG2_BITS>>,
          tseg1 |-> <<CAN_NBTCFG_TSEG1_SHIFT, CAN_NBTCFG_TSEG1_BITS>>,
          brp |-> <<CAN_NBTCFG_BRP_SHIFT, CAN_NBTCFG_BRP_BITS>>]
    ELSE [sjw |-> <<CAN_DBTCFG_SJW_SHIFT, CAN_DBTCFG_SJW_BITS>>,
          tseg2 |-> <<CAN_DBTCFG_TSEG2_SHIFT, CAN_DBTCFG_TSEG2_BITS>>,
          tseg1 |-> <<CAN_DBTCFG_TSEG1_SHIFT, CAN_DBTCFG_TSEG1_BITS>>,
          brp |-> <<CAN_DBTCFG_BRP_SHIFT, CAN_DBTCFG_BRP_BITS>>]

\* the encoded fields fit their register widths
BtFits(b) ==
    LET l == BtLayout(b.kind) IN
    /\ b.sjw - 1 \in 0..(2^(l.sjw[2]) - 1)
    /\ b.phase_seg2 - 1 \in 0..(2^(l.tseg2[2]) - 1)
    /\ b.phase_seg1 + b.prop_seg - 1 \in 0..(2^(l.tseg1[2]) - 1)
    /\ b.brp \in 0..(2^(l.brp[2]) - 1)

\* what the fields of a register word give back
BtDecode(kind, w) ==
    LET l == BtLayout(kind) IN
    [sjw |-> BtField(w, l.sjw[1], l.sjw[2]) + 1,
     phase_seg2 |-> BtField(w, l.tseg2[1], l.tseg2[2]) + 1,
     tseg1 |-> BtField(w, l.tseg1[1], l.tseg1[2]) + 1,
     brp |-> BtField(w, l.brp[1], l.brp[2])]

BtWrittenOk == c_pc = "done" /\ c_ret = "OK" /\ BtFits(bt)

\* C10 as amended: for parameters whose encoded fields fit, the word written
\* holds SJW = sjw-1, TSEG2 = phase_seg2-1, TSEG1 = phase_seg1+prop_seg-1 and
\* BRP = prescaler at the fields' positions and nothing else, and decoding it
\* gives back sjw, phase_seg2, prescaler and the sum phase_seg1 + prop_seg.
C10_FieldsRoundTrip ==
    BtWrittenOk =>
        LET l == BtLayout(bt.kind)
            w == BtWritten
        IN  /\ BtField(w, l.sjw[1], l.sjw[2]) = bt.sjw - 1
            /\ BtField(w, l.tseg2[1], l.tseg2[2]) = bt.phase_seg2 - 1
            /\ BtField(w, l.tseg1[1], l.tseg1[2]) = bt.phase_seg1 + bt.prop_seg - 1
            /\ BtField(w, l.brp[1], l.brp[2]) = bt.brp
            /\ w \subseteq UNION {BtFieldBits(l[k][1], l[k][2]) : k \in DOMAIN l}
            /\ BtDecode(bt.kind, w) =
                [sjw |-> bt.sjw, phase_seg2 |-> bt.phase_seg2,
                 tseg1 |-> bt.phase_seg1 + bt.prop_seg, brp |-> bt.brp]

\* data bit timing with every field above its minimum was written
C10_Witness ==
    /\ BtWrittenOk
    /\ bt.kind = "data"
    /\ bt.sjw = 16 /\ bt.phase_seg2 = 16 /\ bt.phase_seg1 = 16 /\ bt.prop_seg = 16
    /\ bt.brp = 255

\* C10: for parameters whose encoded fields fit, the word written holds the
\* four fields and decoding it gives back the same parameter set: no other
\* fitting parameter set is written as the same word.
C10_ParametersRoundTrip ==
    /\ C10_FieldsRoundTrip
    /\ BtWrittenOk =>
        \A q \in BtInputs :
            (/\ q.kind = bt.kind
             /\ BtFits(q)
             /\ BtDecode(q.kind, BtWritten) =
                    [sjw |-> q.sjw, phase_seg2 |-> q.phase_seg2,
                     tseg1 |-> q.phase_seg1 + q.prop_seg, brp |-> q.brp])
                => q = bt

\* C11: if a bit-timing input exceeds its register field, the operation fails
\* with -EINVAL and no register write reaches the controller.
C11_OutOfRangeRejected ==
    (c_pc = "done" /\ bt.kind # "none" /\ ~BtFits(bt))
        => c_ret = "EINVAL" /\ link_log = <<>>

(***************************************************************************)
(* Interrupt thread and device lock                                        *)
(***************************************************************************)
\* C19: once the interrupt thread has handled an interrupt, the consumed
\* flags are acknowledged (written back to CAN_INT) and interrupt delivery
\* is enabled again.
C19_InterruptReenabled ==
    (irq_registered /\ \E i \in DOMAIN io_log :
                            io_log[i].op = "read" /\ io_log[i].reg = CAN_INT)
        => /\ irq_enabled
           /\ \E i, j \in DOMAIN io_log :
                /\ i < j
                /\ io_log[i].op = "read" /\ io_log[i].reg = CAN_INT
                /\ io_log[j].op = "write" /\ io_log[j].reg = CAN_INT

\* C20: every link transaction of the transmit path and of the interrupt
\* thread is issued while its issuer holds mcp_lock.
C20_DeviceLockHeld ==
    [][/\ \A t \in Threads : pc[t] = "send" /\ pc'[t] = "idle" => mcp_lock = t
       /\ Len(io_log') > Len(io_log) => mcp_lock # 0]_vars

(***************************************************************************)
(* Clock bring-up                                                          *)
(***************************************************************************)
\* C12: when setup_osc returns, a poll that showed all awaited bits is the
\* last poll of the call and the call succeeded; a successful call ended
\* with such a poll; and a call that failed with the timeout error ran
\* until more than the polling period had passed.
C12_PollingOutcome ==
    o_pc = "osc_done" =>
        /\ \A k \in DOMAIN osc_polls :
              OscWaitFor \subseteq osc_polls[k] => k = Len(osc_polls) /\ o_ret = "OK"
        /\ o_ret = "OK" =>
              osc_polls # <<>> /\ OscWaitFor \subseteq osc_polls[Len(osc_polls)]
        /\ o_ret = "ENODEV" => elapsed > MCP2517FD_OSC_POLLING_JIFFIES

\* C13: once setup_osc polls, it returns.
C13_PollingTerminates ==
    (o_pc \in {"osc_check", "osc_read"}) ~> (o_pc = "osc_done")

\* C14: two bring-up failures at different places never return the same
\* error.
C14_FailuresDistinct ==
    \A f, g \in fail_seen : f[1] # g[1] => f[2] # g[2]

(***************************************************************************)
(* Probe before FIFO setup                                                 *)
(***************************************************************************)
\* the FIFO, filter and TEF registers: from CAN_TEFCON up to the RAM window
FifoRegs == CAN_TEFCON..(FIFO_DATA(0) - 1)

IsConRead(e) == e.op = "read" /\ e.reg = CAN_CON
MatchesDefault(val) == val \cap CAN_CON_DEFAULT_MASK = CAN_CON_DEFAULT

\* every access to a FIFO register in the log comes after the last read of
\* CAN_CON, that read showed the Configuration mode defaults, and if an
\* earlier read did not, it directly follows the write of the defaults and a
\* reset
VerifiedBeforeFifo(log) ==
    LET reads == {j \in DOMAIN log : IsConRead(log[j])}
        fifo == {i \in DOMAIN log : log[i].reg \in FifoRegs}
    IN  fifo # {} =>
          /\ reads # {}
          /\ LET last == CHOOSE j \in reads : \A k \in reads : k <= j IN
              /\ \A i \in fifo : last < i
              /\ MatchesDefault(log[last].val)
              /\ reads # {last}
                    => /\ last > 2
                       /\ log[last - 2] = Io("write", CAN_CON, CAN_CON_DEFAULT)
                       /\ log[last - 1].op = "reset"

\* the ring and slot state of the driver
FifoState == <<ringVars, sizeVars, tx_pending_mask, tx_msg>>

\* C15: every access to a FIFO register comes after the probe read CAN_CON
\* with the Configuration mode defaults, directly or at the end of the forced
\* sequence; the probe leaves the FIFO state alone; and when the final read
\* of the probe goes through and does not show the defaults, open returns
\* -ENODEV with no FIFO register accessed.
C15_FifoSetupAfterVerifiedProbe ==
    [][/\ VerifiedBeforeFifo(io_log')
       /\ o_pc \in {"irq", "probe", "probe_osc", "probe_oscwr", "probe_con",
                    "probe_force", "probe_reset", "probe_final"}
             => FifoState' = FifoState
       /\ (o_pc = "probe_final" /\ o_pc' # o_pc /\ ~MatchesDefault(dev_con)
               /\ o_ret' # "EIO")
             => /\ o_pc' = "closed"
                /\ o_ret' = "ENODEV"
                /\ ~dev_up'
                /\ \A i \in DOMAIN io_log : io_log[i].reg \notin FifoRegs]_vars

\* FIFO registers were accessed after the forced sequence, in a run where an
\* earlier open had failed at the final verification
C15_Witness ==
    /\ <<"notfound", "ENODEV">> \in fail_seen
    /\ \E i, j \in DOMAIN io_log :
        /\ i < j
        /\ io_log[i] = Io("write", CAN_CON, CAN_CON_DEFAULT)
        /\ io_log[j].reg \in FifoRegs

(***************************************************************************)
(* Mode transitions                                                        *)
(***************************************************************************)
\* the registers that report where a FIFO lies in RAM
UaRegs == {CAN_TEFUA} \cup {CAN_FIFOUA(x) : x \in 1..31}

\* before position i of the log, the last mode request (a write of CAN_CON)
\* is followed by a read of CAN_CON whose OPMOD field is the requested mode
ReadBackBefore(i) ==
    LET writes == {j \in 1..(i - 1) : io_log[j].op = "write" /\ io_log[j].reg = CAN_CON}
    IN  /\ writes # {}
        /\ LET w == CHOOSE j \in writes : \A k \in writes : k <= j IN
            \E r \in (w + 1)..(i - 1) :
                /\ IsConRead(io_log[r])
                /\ OpModOf(io_log[r].val) = ReqOpOf(io_log[w].val)

\* C16: the FIFO addresses are sampled, and the transmit queue is woken,
\* only after the requested mode was read back from CAN_CON.
C16_ModeReadBack ==
    /\ \A i \in DOMAIN io_log :
          (io_log[i].op = "read" /\ io_log[i].reg \in UaRegs) => ReadBackBefore(i)
    /\ (dev_up /\ ~queue_stopped) => ReadBackBefore(Len(io_log) + 1)

(***************************************************************************)
(* Ring layout                                                             *)
(***************************************************************************)
\* the value the log holds for the last read of reg
LastRead(reg) ==
    LET reads == {j \in DOMAIN io_log : io_log[j].op = "read" /\ io_log[j].reg = reg}
    IN  Val(io_log[CHOOSE j \in reads : \A k \in reads : k <= j].val)

\* C18: when setup_fifo has returned 0, every stored address is the address
\* read from the status register plus 0x400, the TEF ends where the RX FIFO
\* starts, the RX FIFO ends at the RAM address of TX FIFO 0, and
\* TEF base < TEF end <= RX base < RX end.
C18_RingsContiguous ==
    o_pc = "bittiming" =>
        /\ tef_address_start = 1024 + LastRead(CAN_TEFUA)
        /\ rx_address_start = 1024 + LastRead(CAN_FIFOUA(RX_FIFO))
        /\ rx_address_end = 1024 + LastRead(CAN_FIFOUA(TX_FIFO(0)))
        /\ tef_address_end = rx_address_start
        /\ rx_address_end = 1024 + DevTxUa(0)
        /\ tef_address_start < tef_address_end
        /\ tef_address_end <= rx_address_start
        /\ rx_address_start < rx_address_end

(***************************************************************************)
(* Ring pointers                                                           *)
(***************************************************************************)
CAN_FIFOCON_UINC == 256

\* the pointer-increment commands sent for the RX FIFO since open
RxUincs ==
    {i \in DOMAIN io_log : /\ io_log[i].op = "write"
                           /\ io_log[i].reg = CAN_FIFOCON(RX_FIFO)
                           /\ Bits(CAN_FIFOCON_UINC) \subseteq io_log[i].val}

\* C17: while the interface is up, the RX pointer is base + (K mod rx_fifos)
\* * rx_address_inc for the K elements the interrupt thread was called for,
\* one UINC was sent for each, the TEF pointer is at its base as long as no
\* TEF entry was consumed, and both pointers lie in [base, end).
C17_RingPointers ==
    dev_up =>
        /\ rx_address = rx_address_start + (rx_handled % rx_fifos) * rx_address_inc
        /\ Cardinality(RxUincs) = rx_handled
        /\ rx_address_start <= rx_address /\ rx_address < rx_address_end
        /\ tef_done = {} => tef_address = tef_address_start
        /\ tef_address_start <= tef_address /\ tef_address < tef_address_end

(***************************************************************************)
(* Slot bitmap: locking and the stop-time cleanup                          *)
(***************************************************************************)
\* C21: every read and every write of tx_pending_mask (the read and the
\* update in start_xmit, the loop and the reset of the stop-time cleanup)
\* is made while txfifo_lock is held.
C21_BitmapUnderLock ==
    [][/\ \A t \in Threads :
            /\ pc[t] = "read" /\ pc'[t] = "decide" => txfifo_lock = t
            /\ pc[t] = "decide" /\ pc'[t] = "send" => txfifo_lock = t
       /\ dev_up /\ ~dev_up' => txfifo_lock # 0]_vars

\* C22: mcp2517fd_stop adds exactly one to the transmit-error counter for
\* every bit set in tx_pending_mask, and whenever the device is down the
\* bitmap is empty.
C22_CleanupCountsPending ==
    [][/\ dev_up /\ ~dev_up' =>
            tx_errors' = tx_errors + Cardinality(tx_pending_mask)
       /\ ~dev_up' => tx_pending_mask' = {}]_vars

\* the device was stopped with frames pending in at least two slots overall
C22_Witness == ~dev_up /\ tx_errors >= 2 /\ tx_pending_mask = {}

(***************************************************************************)
(* The prepared transmit message of one slot, in bytes                     *)
(***************************************************************************)
CAN_FIFOCON_TXREQ == 512

\* the most asynchronous messages waiting on the link
MaxQueued == 2

\* the slots whose message is followed, and the value of the data bytes of
\* the frames handed over
TxSlots == {0, 7}
DataBytes == {255}

\* the frames handed over: every length, standard and extended identifier
TxFrames == {f \in Frames : ~f.rtr /\ ~f.brs /\ ~f.esi /\ f.id = 291}

\* CAN_FIFOUA(TX_FIFO(i)) of a controller that has left Configuration mode
\* after the sizing for mtu
TxUa(mtu, i) ==
    FifoTxFifos(mtu) * SizeofObjTef + FifoRxFifos(mtu) * FifoRxInc(mtu)
        + i * (SizeofObjTx + FifoPayload(mtu))

\* mcp2517fd_setup_fifo, the body of the address loop for slot i with val
\* read from CAN_FIFOUA(TX_FIFO(i)).  memset(msg, 0, sizeof(msg)) clears as
\* many bytes as a pointer has, which are skb_idx and min_length: obj and
\* payload keep their contents.
TriggerAddr_Base(i) == CAN_FIFOCON(TX_FIFO(i))
TriggerAddr(i) == CAN_FIFOCON(TX_FIFO(i)) + 1
PrepareTxMsg(m, i, val) ==
    [m EXCEPT !.slot = i,
              !.ua = val,
              !.min_length = 2 + SizeofObjTx,
              !.data_cmd = CalcCmdAddr(INSTRUCTION_WRITE, FIFO_DATA(val)),
              !.trig_len = 3,
              !.trig_cmd = CalcCmdAddr(INSTRUCTION_WRITE, TriggerAddr(i)),
              !.trig_data = Val(Shr(Bits(CAN_FIFOCON_TXREQ)
                                        \cup Bits(CAN_FIFOCON_UINC), 8)) % 256]

\* mcp2517fd_open that succeeds, with the preparation of the message of the
\* slot followed.  The register accesses of the bring-up are synchronous, so
\* they wait for the messages queued before.
TxOpen ==
    /\ ~dev_up
    /\ spi_queue = <<>>
    /\ \E mtu \in Mtus, i \in TxSlots, ready \in BOOLEAN :
        /\ i < FifoTxFifos(mtu)
        /\ txm.min_length = 0 \/ txm.slot = i
        /\ tx_fifos' = FifoTxFifos(mtu)
        /\ payload_size' = FifoPayload(mtu)
        /\ txm' = PrepareTxMsg(txm, i, IF ready THEN TxUa(mtu, i) ELSE 0)
    /\ dev_up' = TRUE
    /\ irq_registered' = TRUE
    /\ open_calls' = OpenCalls("ok")
    /\ irq_enabled' = TRUE
    /\ queue_stopped' = FALSE
    /\ tx_errors' = 0
    /\ echo_freed' = <<>>
    /\ UNCHANGED <<linkVars, openVars, evVars, spi_queue,
                   tx_pending_mask, txfifo_lock, pc, prio, last_ret, tx_msg,
                   alloc_log, tef_done>>

\* mcp2517fd_transmit_message_common: the payload buffer after
\* memset(payload, 0, sizeof(*payload)), which clears one byte, and
\* memcpy(payload, data, len)
FillPayload(payload, d, len) ==
    [k \in DOMAIN payload |->
        IF k <= len THEN d ELSE IF k = 1 THEN 0 ELSE payload[k]]

\* a message as the link sends it: the first len bytes from tx_buf
SpiMsg(kind, bytes) == [kind |-> kind, bytes |-> bytes]

\* mcp2517fd_transmit_message / _fdmessage for the slot followed: the object
\* and the payload are copied into the message, the data message and then
\* the trigger message are queued with spi_async
TxTransmit ==
    /\ dev_up
    /\ txm.min_length > 0
    /\ Len(spi_queue) + 2 <= MaxQueued
    /\ \E f \in TxFrames, d \in DataBytes, data_ok \in BOOLEAN, trigger_ok \in BOOLEAN :
        LET e == TransmitMessage(txm.slot, f)
            payload == FillPayload(txm.payload, d, TxLen(f))
            xfer_len == txm.min_length + Align4(TxLen(f))
            data == SpiMsg("data", txm.data_cmd \o e.obj
                                    \o SubSeq(payload, 1, xfer_len - txm.min_length))
            trigger == SpiMsg("trigger", txm.trig_cmd \o <<txm.trig_data>>)
        IN  /\ f.fd => payload_size = PayloadCanFd
            /\ txm' = [txm EXCEPT !.obj = e.obj, !.payload = payload,
                                  !.xfer_len = xfer_len]
            /\ tx_msg' = <<e>>
            /\ spi_queue' = spi_queue \o (IF ~data_ok THEN <<>>
                                          ELSE IF ~trigger_ok THEN <<data>>
                                          ELSE <<data, trigger>>)
            /\ last_ret' = IF data_ok /\ trigger_ok THEN "OK" ELSE "BUSY"
    /\ UNCHANGED <<linkVars, openVars, evVars, devVars, tx_pending_mask, txfifo_lock,
                   pc, prio, alloc_log, tx_errors, echo_freed, tef_done>>

\* the link has sent the message at the head of its queue
SpiComplete ==
    /\ spi_queue # <<>>
    /\ spi_queue' = Tail(spi_queue)
    /\ UNCHANGED <<linkVars, openVars, evVars, devVars, tx_pending_mask, txfifo_lock,
                   pc, prio, last_ret, tx_msg, alloc_log, tx_errors, echo_freed, tef_done, txm>>

NextTx ==
    \/ TxOpen
    \/ TxTransmit
    \/ SpiComplete
    \/ Stop

SpecTx == Init /\ [][NextTx]_vars

\* C23: mcp2517fd_stop releases the slot state only once no message of the
\* transmit path is waiting on the link and the interrupt thread is gone;
\* and while the device is down no message is queued.
C23_StopWaitsForLink ==
    [][/\ dev_up /\ ~dev_up' => spi_queue = <<>> /\ ~irq_registered'
       /\ ~dev_up => Len(spi_queue') <= Len(spi_queue)]_vars

\* the open path where the link may also fail in the transactions whose
\* result the driver does not look at; the controller was left in CAN 2.0
\* mode, its oscillator ready or disabled
InitOpenFault ==
    /\ InitOpen
    /\ ~clock_pll
    /\ dev_osc \in {{5, 6, 10}, {2, 5, 6}}
    /\ OpModOf(dev_con) = CAN_CON_MODE_CAN2_0

NextOpenFault ==
    \/ OpenEnter
    \/ OpenRequestIrq
    \/ HwProbeReset(BOOLEAN)
    \/ HwProbeReadOsc
    \/ HwProbeWriteOsc
    \/ HwProbeReadCon
    \/ HwProbeForce
    \/ HwProbeForceReset(BOOLEAN)
    \/ HwProbeFinal
    \/ SetupClearRam
    \/ SetupOscWrite
    \/ SetupOscCheck
    \/ SetupOscRead
    \/ Tick
    \/ SetupOscReturn
    \/ SetupRegs
    \/ SetupFifoSize
    \/ SetupFifoRx
    \/ SetupFifoFilters
    \/ SetupFifoFilter0
    \/ SetupFifoTx
    \/ SetupFifoLoopback
    \/ SetupFifoTxUa
    \/ SetupFifoRxUa
    \/ SetupFifoTefUa
    \/ SetupFifoConfig
    \/ OpenSetBittiming(BOOLEAN)
    \/ OpenSetNormalMode
    \/ DevOscReady
    \/ DevModeSwitch
    \/ OpenIst
    \/ Stop

SpecOpenFault == InitOpenFault /\ [][NextOpenFault]_vars
\* C24: an open call that returned success had no failed link transaction:
\* no reset, register read or register write of the call failed on the link.
C24_LinkFailureReported ==
    (o_pc = "closed" /\ o_ret = "OK")
        => \A i \in DOMAIN io_log : io_log[i].op # "failed"

(***************************************************************************)
(* Oscillator status at probe                                              *)
(***************************************************************************)
\* the clock configuration hw_probe writes when the clock is disabled
ProbeClockConfig == Shl(Bits(MCP2517FD_OSC_CLKODIV_10), MCP2517FD_OSC_CLKODIV_SHIFT)

RegField(val, shift, bits) == Val(Shr(val, shift) \cap (0..(bits - 1)))

\* the writes to reg in a log
WritesTo(log, reg) == {i \in DOMAIN log : log[i].op = "write" /\ log[i].reg = reg}

\* C26: setup_fifo sizes from net->mtu: with CAN_MTU the payload is 8 bytes,
\* there are 30 TX FIFOs and the RX FIFO has 32 elements; with CANFD_MTU the
\* payload is 64 bytes, there are 8 TX FIFOs and the RX FIFO has 17 elements;
\* the TEF is sized to the number of TX FIFOs, every TX FIFO has one element
\* and the payload size of the mode; with any other MTU open returns -EINVAL
\* and setup_fifo has accessed no register and changed no size.
C26_FifoSizing ==
    [][LET classic == net_mtu' = "CAN_MTU"
           tx == IF classic THEN 30 ELSE 8
           rx == IF classic THEN 32 ELSE 17
           pl == IF classic THEN 8 ELSE 64
           plsize == IF classic THEN 0 ELSE 7
           log == io_log'
       IN  /\ (o_pc = "fifo_size" /\ o_pc' # o_pc) =>
                IF net_mtu' \in {"CAN_MTU", "CANFD_MTU"}
                THEN /\ tx_fifos' = tx /\ rx_fifos' = rx /\ payload_size' = pl
                     /\ \/ o_pc' = "closed" /\ o_ret' = "EIO"
                        \/ /\ o_pc' # "closed"
                           /\ Len(log) = Len(io_log) + 1
                           /\ log[Len(log)].op = "write"
                           /\ log[Len(log)].reg = CAN_TEFCON
                           /\ RegField(log[Len(log)].val, 24, 5) + 1 = tx
                ELSE /\ o_pc' = "closed" /\ o_ret' = "EINVAL" /\ ~dev_up'
                     /\ log = io_log
                     /\ <<tx_fifos, rx_fifos, payload_size>>' = <<tx_fifos, rx_fifos, payload_size>>
           /\ \A i \in (Len(io_log) + 1)..Len(log) :
                /\ log[i].op = "write" /\ log[i].reg = CAN_FIFOCON(RX_FIFO) =>
                     /\ RegField(log[i].val, 24, 5) + 1 = rx
                     /\ RegField(log[i].val, 29, 3) = plsize
                /\ \A k \in 0..29 :
                     log[i].op = "write" /\ log[i].reg = CAN_FIFOCON(TX_FIFO(k)) =>
                     /\ k < tx
                     /\ RegField(log[i].val, 24, 5) = 0
                     /\ RegField(log[i].val, 29, 3) = plsize
           /\ (~dev_up /\ dev_up') =>
                \A k \in 0..(tx - 1) : WritesTo(log, CAN_FIFOCON(TX_FIFO(k))) # {}]_vars

\* both sizings came up in one run: the interface is up with the CAN-FD
\* sizing after an open that was refused for its MTU
C26_Witness ==
    /\ dev_up /\ net_mtu = "CANFD_MTU" /\ tx_fifos = 8
    /\ opens = 2
    /\ WritesTo(io_log, CAN_FIFOCON(TX_FIFO(7))) # {}

(***************************************************************************)
(* Internal Loopback during setup_fifo                                     *)
(***************************************************************************)
\* the places of setup_fifo after Internal Loopback was requested
AfterLoopback == {"fifo_ua", "fifo_rxua", "fifo_tefua", "fifo_config"}

\* C27: once setup_fifo has requested Internal Loopback, it returns, with 0
\* or with an error, only after it has requested Configuration mode again:
\* the mode the controller was last asked for when setup_fifo ends is
\* Configuration (or the request for it is the transaction that failed), and
\* no other mode is requested in between.
C27_ConfigRequestedBeforeSetupEnds ==
    [][/\ o_pc \in AfterLoopback =>
            ReqOpOf(dev_con') \in {CAN_CON_MODE_INTERNAL_LOOPBACK, CAN_CON_MODE_CONFIG}
       /\ (o_pc \in AfterLoopback /\ o_pc' \in {"closed", "bittiming"}) =>
            \/ ReqOpOf(dev_con') = CAN_CON_MODE_CONFIG
            \/ o_pc = "fifo_config" /\ o_pc' = "closed"]_vars

(***************************************************************************)
(* The RX filters                                                          *)
(***************************************************************************)
\* the control byte of filter f: CiFLTCONm holds the filters 4m .. 4m + 3,
\* one byte each, from address 0x1D0 on
FltConByteAddr(f) == 464 + f

\* the bytes a logged write puts at address a, as (index, value) pairs
WriteCovers(e, a) ==
    \/ e.op = "write" /\ a - e.reg \in 0..3
    \/ e.op = "write1" /\ a = e.reg
WrittenByte(e, a) == ByteOf(e.val, a - e.reg)

\* the accesses of a log that write address a
WritesAt(log, a) == {i \in DOMAIN log : WriteCovers(log[i], a)}

\* C28: when setup_fifo is through with the filters, it has written 0 to the
\* filter object and to the filter mask of each of the 32 filters and to the
\* control byte of each of them; the last value written to the control byte
\* of filter 0 enables it and points it to the RX FIFO (0x81), the last
\* value written to the control byte of every other filter is 0.
C28_FiltersClearedThenFilter0 ==
    o_pc = "fifo_tx" =>
        \A f \in 0..31 :
            /\ \E i \in WritesAt(io_log, CAN_FLTOBJ(f)) : io_log[i].val = {}
            /\ \E i \in WritesAt(io_log, CAN_FLTMASK(f)) : io_log[i].val = {}
            /\ \A i \in WritesAt(io_log, CAN_FLTMASK(f)) : io_log[i].val = {}
            /\ WritesAt(io_log, FltConByteAddr(f)) # {}
            /\ LET last == Max(WritesAt(io_log, FltConByteAddr(f)))
               IN  WrittenByte(io_log[last], FltConByteAddr(f)) =
                       IF f = 0 THEN 128 + RX_FIFO ELSE 0

(***************************************************************************)
(* The two messages of a submit                                            *)
(***************************************************************************)
\* the messages a step appends to the queue of the link
Queued == SubSeq(spi_queue', Len(spi_queue) + 1, Len(spi_queue'))

\* C29: a submit for slot s queues the data message and then the trigger
\* message and nothing else.  The data message is a write to the RAM address
\* read from CAN_FIFOUA of TX FIFO s during setup, carrying the 8 bytes of
\* the object and the payload up to the length rounded up to 4; the trigger
\* message is a write of the one byte 0x03 (TXREQ | UINC, shifted down) to
\* the second byte of CAN_FIFOCON of TX FIFO s.  The trigger message is
\* queued only behind its data message; the submit returns NETDEV_TX_OK when
\* both are queued and NETDEV_TX_BUSY when only the data message is.
C29_DataThenTrigger ==
    [][Len(spi_queue') >= Len(spi_queue) =>
        /\ SubSeq(spi_queue', 1, Len(spi_queue)) = spi_queue
        /\ Len(Queued) <= 2
        /\ Len(Queued) >= 1 =>
            LET data == Queued[1].bytes IN
            /\ Queued[1].kind = "data"
            /\ data[1] \div 16 = 2
            /\ HdrAddr(data) = 1024 + txm.ua
            /\ txm.ua = txm'.ua /\ txm.slot = txm'.slot
            /\ SubSeq(data, 3, 10) = tx_msg'[1].obj
            /\ Len(data) = 10 + 4 * ((TxLen(tx_msg'[1].frame) + 3) \div 4)
            /\ \A k \in 1..TxLen(tx_msg'[1].frame) : data[10 + k] \in DataBytes
            /\ Len(Queued) = 1 => last_ret' = "BUSY"
        /\ Len(Queued) = 2 =>
            LET trigger == Queued[2].bytes IN
            /\ Queued[2].kind = "trigger"
            /\ Len(trigger) = 3
            /\ trigger[1] \div 16 = 2
            /\ HdrAddr(trigger) = 92 + 12 * (txm.slot + 1) + 1
            /\ trigger[3] = (512 + 256) \div 256
            /\ last_ret' = "OK"]_vars

\* both messages of a submit for slot 7 wait on the link
C29_Witness ==
    /\ Len(spi_queue) = 2
    /\ spi_queue[1].kind = "data" /\ spi_queue[2].kind = "trigger"
    /\ txm.slot = 7 /\ txm.ua > 0
    /\ HdrAddr(spi_queue[1].bytes) = 1024 + txm.ua
    /\ last_ret = "OK"

(***************************************************************************)
(* Padding of the payload                                                  *)
(***************************************************************************)
\* C30: in every data message queued, the payload bytes behind the data of
\* the frame, up to the end of the transfer, are 0, whatever frames went
\* through the slot before and whether or not the device was stopped and
\* opened again in between.
C30_PaddingIsZero ==
    [][Len(Queued) >= 1 /\ Queued[1].kind = "data" =>
        LET data == Queued[1].bytes
            len == TxLen(tx_msg'[1].frame)
        IN  \A k \in (10 + len + 1)..Len(data) : data[k] = 0]_vars

(***************************************************************************)
(* The limits announced for the bit timing                                 *)
(***************************************************************************)
\* mcp2517fd_nominal_bittiming_const and mcp2517fd_data_bittiming_const
BittimingConst(kind) ==
    IF kind = "nominal"
    THEN [tseg1_min |-> 2, tseg1_max |-> 2^CAN_NBTCFG_TSEG1_BITS,
          tseg2_min |-> 1, tseg2_max |-> 2^CAN_NBTCFG_TSEG2_BITS,
          sjw_max |-> 2^CAN_NBTCFG_SJW_BITS,
          brp_min |-> 1, brp_max |-> 2^CAN_NBTCFG_BRP_BITS]
    ELSE [tseg1_min |-> 1, tseg1_max |-> 2^CAN_DBTCFG_TSEG1_BITS,
          tseg2_min |-> 1, tseg2_max |-> 2^CAN_DBTCFG_TSEG2_BITS,
          sjw_max |-> 2^CAN_DBTCFG_SJW_BITS,
          brp_min |-> 1, brp_max |-> 2^CAN_DBTCFG_BRP_BITS]

\* a parameter set the CAN core lets through with these limits
BtAdmitted(b) ==
    LET c == BittimingConst(b.kind) IN
    /\ b.sjw \in 1..c.sjw_max
    /\ b.phase_seg2 \in c.tseg2_min..c.tseg2_max
    /\ b.phase_seg1 + b.prop_seg \in c.tseg1_min..c.tseg1_max
    /\ b.brp \in c.brp_min..c.brp_max

\* C31: every parameter set inside the limits the driver announces is
\* written with sjw - 1, phase_seg2 - 1, phase_seg1 + prop_seg - 1 and brp
\* each inside its register field: each value fits the width of its field,
\* and the field of the word written holds it.
C31_AdmittedParametersFit ==
    (c_pc = "done" /\ c_ret = "OK" /\ BtAdmitted(bt)) =>
        LET l == BtLayout(bt.kind)
            w == BtWritten
        IN  /\ BtFits(bt)
            /\ BtField(w, l.sjw[1], l.sjw[2]) = bt.sjw - 1
            /\ BtField(w, l.tseg2[1], l.tseg2[2]) = bt.phase_seg2 - 1
            /\ BtField(w, l.tseg1[1], l.tseg1[2]) = bt.phase_seg1 + bt.prop_seg - 1
            /\ BtField(w, l.brp[1], l.brp[2]) = bt.brp

(***************************************************************************)
(* A submit that fails on the link                                         *)
(***************************************************************************)
\* C32: when start_xmit returns NETDEV_TX_BUSY because spi_async refused the
\* data or the trigger message, the bitmap and the state of the transmit
\* queue are as they were when the call came in: the slot the call had
\* marked (fls of the bitmap, so a slot that was free before) is free again
\* and the call has not left the queue stopped.
C32_FailedSubmitLeavesNoTrace ==
    [][\A t \in Threads :
        (pc[t] = "send" /\ pc'[t] = "idle" /\ last_ret' = "BUSY") =>
            /\ prio[t] \notin tx_pending_mask'
            /\ queue_stopped' = queue_stopped]_vars

(***************************************************************************)
(* The shape of the bitmap                                                 *)
(***************************************************************************)
\* C33: tx_pending_mask is always 2^k - 1 for a k between 0 and tx_fifos:
\* the pending slots are 0 .. k-1.  So the index fls(tx_pending_mask) a
\* caller has read under the lock is the lowest index whose bit is clear.
C33_BitmapIsPrefix ==
    LET k == Cardinality(tx_pending_mask) IN
    /\ k <= tx_fifos
    /\ tx_pending_mask = 0..(k - 1)
    /\ \A t \in Threads :
        pc[t] = "decide" =>
            /\ prio[t] \notin tx_pending_mask
            /\ \A i \in 0..(prio[t] - 1) : i \in tx_pending_mask

\* three slots are pending and a caller holding the lock has read index 3
C33_Witness ==
    /\ tx_pending_mask = {0, 1, 2}
    /\ \E t \in Threads : pc[t] = "decide" /\ prio[t] = 3 /\ txfifo_lock = t
    /\ \E t \in Threads : pc[t] = "send"

(***************************************************************************)
(* The return paths of mcp2517fd_open                                      *)
(***************************************************************************)
\* how often a call occurs in a sequence of calls
Calls(log, c) == Cardinality({i \in DOMAIN log : log[i] = c})

\* C34: mcp2517fd_open never returns with mcp_lock held.  When the interrupt
\* request, the probe, the setup or the request for the normal mode fails,
\* open returns the error with the interrupt line free, after free_irq was
\* called once if the line had been acquired and not at all otherwise, and
\* after the transceiver was switched off once and close_candev was called
\* once; the queue is not woken.  When open returns 0 nothing was undone,
\* and the queue was woken once.
C34_OpenCleansUpOnce ==
    [][(o_pc # "closed" /\ o_pc' = "closed") =>
        LET calls == open_calls' IN
        /\ mcp_lock' = 0
        /\ Calls(calls, "open_candev") = 1 /\ Calls(calls, "power_on") = 1
        /\ IF o_ret' = "OK"
           THEN /\ dev_up' /\ irq_registered' /\ ~queue_stopped'
                /\ Calls(calls, "wake_queue") = 1
                /\ Calls(calls, "request_irq") = 1
                /\ Calls(calls, "free_irq") = 0
                /\ Calls(calls, "power_off") = 0
                /\ Calls(calls, "close_candev") = 0
           ELSE /\ o_ret' \in {"EIRQ", "EIO", "ENODEV", "EINVAL"}
                /\ (o_pc = "irq") = (o_ret' = "EIRQ")
                /\ ~dev_up' /\ ~irq_registered'
                /\ queue_stopped' = queue_stopped
                /\ Calls(calls, "wake_queue") = 0
                /\ Calls(calls, "free_irq") = Calls(calls, "request_irq")
                /\ Calls(calls, "request_irq") = IF o_pc = "irq" THEN 0 ELSE 1
                /\ Calls(calls, "power_off") = 1
                /\ Calls(calls, "close_candev") = 1
                /\ calls[Len(calls)] = "close_candev"]_vars

\* an open call failed in the probe after the interrupt line was acquired,
\* and the call before it had failed at the interrupt request
C34_Witness ==
    /\ o_pc = "closed" /\ o_ret = "ENODEV" /\ mcp_lock = 0 /\ opens = 2
    /\ <<"fault", "ENODEV">> \in fail_seen
    /\ open_calls = <<"open_candev", "power_on", "request_irq">> \o OpenCleanCalls
    /\ ~irq_registered

(***************************************************************************)
(* The echo buffers at stop                                                *)
(***************************************************************************)
\* C35: mcp2517fd_clean releases the echo buffer of every slot whose bit is
\* set in tx_pending_mask, index i for slot i, once, and the echo buffer of
\* no other slot.
C35_CleanFreesOwnEchoBuffer ==
    [][(dev_up /\ ~dev_up') =>
        \A i \in 0..31 :
            Calls(echo_freed', i) = IF i \in tx_pending_mask THEN 1 ELSE 0]_vars

(***************************************************************************)
(* The mode requested at the end of open                                   *)
(***************************************************************************)
\* the control modes opened with: no flag, each mode flag below another one,
\* the two flags of con_val set and clear
ModeInputs ==
    {{}, {"FD"}, {"LOOPBACK", "FD"}, {"LISTENONLY", "FD", "ONE_SHOT"},
     {"LISTENONLY", "FD_NON_ISO", "ONE_SHOT"},
     {"LOOPBACK", "LISTENONLY", "FD", "FD_NON_ISO"}}

\* open on a controller that answers, its oscillator disabled at first
InitMode ==
    /\ InitOpenMode(ModeInputs)
    /\ ~clock_pll
    /\ dev_osc = {2, 5, 6}
    /\ dev_con = CAN_CON_DEFAULT

SpecMode == InitMode /\ [][NextOpen]_vars

\* the writes of CAN_CON in a log
ConWrites(log) == WritesTo(log, 0)

\* C36: mcp2517fd_set_normal_mode writes CAN_CON once.  The mode requested
\* is External Loopback (5) with CAN_CTRLMODE_LOOPBACK, else Listen Only (3)
\* with CAN_CTRLMODE_LISTENONLY, else Mixed (0) with CAN_CTRLMODE_FD, else
\* CAN 2.0 (6).  The other bits written are con_val: STEF, ISOCRCEN unless
\* CAN_CTRLMODE_FD_NON_ISO, RTXAT unless CAN_CTRLMODE_ONE_SHOT, the same
\* bits setup_fifo wrote with its request for Configuration mode.
C36_NormalModeByPriority ==
    [][(o_pc = "normal" /\ o_pc' = "closed" /\ o_ret' = "OK") =>
        LET log == io_log'
            e == log[Len(log)]
            mode == IF "LOOPBACK" \in ctrlmode THEN 5
                    ELSE IF "LISTENONLY" \in ctrlmode THEN 3
                    ELSE IF "FD" \in ctrlmode THEN 0
                    ELSE 6
            flags == {19} \cup (IF "FD_NON_ISO" \in ctrlmode THEN {} ELSE {5})
                          \cup (IF "ONE_SHOT" \in ctrlmode THEN {} ELSE {16})
            before == Max(ConWrites(io_log))
        IN  /\ Len(log) = Len(io_log) + 1
            /\ e.op = "write" /\ e.reg = 0
            /\ RegField(e.val, 24, 3) = mode
            /\ e.val \ (24..26) = flags
            /\ RegField(io_log[before].val, 24, 3) = 4
            /\ io_log[before].val \ (24..26) = flags
            /\ RegField(dev_con', 24, 3) = mode]_vars

\* the interface is up in External Loopback although listen-only and FD are
\* set as well, with the non-ISO CRC
C36_Witness ==
    /\ dev_up /\ o_ret = "OK"
    /\ ctrlmode = {"LOOPBACK", "LISTENONLY", "FD", "FD_NON_ISO"}
    /\ RegField(dev_con, 24, 3) = 5
    /\ 5 \notin dev_con /\ 16 \in dev_con

(***************************************************************************)
(* The FIFOs in the controller's RAM                                       *)
(***************************************************************************)
\* the reads of the address register of a TX FIFO in a log
TxUaReads(log) ==
    {i \in DOMAIN log : /\ log[i].op = "read"
                        /\ \E k \in 0..29 : log[i].reg = CAN_FIFOUA(TX_FIFO(k))}

\* C37: with either sizing the TEF (12 bytes per entry), the RX FIFO (12
\* bytes and the payload per element) and the TX FIFOs (8 bytes and the
\* payload each) fit the 2048 bytes of RAM; and once the interface is up
\* every address the driver has stored for the TEF and the RX FIFO, and every
\* address it has taken for a TX FIFO together with the element behind it,
\* is inside the RAM window 0x400 .. 0xBFF.
C37_FifosFitRam ==
    /\ tx_fifos > 0 =>
        tx_fifos * 12 + rx_fifos * (12 + payload_size) + tx_fifos * (8 + payload_size)
            <= 2048
    /\ dev_up =>
        /\ \A a \in {rx_address_start, rx_address, tef_address_start, tef_address} :
            a \in 1024..3071
        /\ \A a \in {rx_address_end, tef_address_end} : a \in 1024..3072
        /\ \A i \in TxUaReads(io_log) :
            /\ 1024 + Val(io_log[i].val) >= 1024
            /\ 1024 + Val(io_log[i].val) + 8 + payload_size <= 3072

\* the interface is up with the CAN-FD sizing and the addresses of a
\* controller that had left Configuration mode: TEF at 0x400, RX FIFO behind
\* its 8 entries, TX FIFO 0 behind the 17 RX elements
C37_Witness ==
    /\ dev_up /\ net_mtu = "CANFD_MTU"
    /\ tef_address_start = 1024
    /\ rx_address_start = 1024 + 96
    /\ rx_address_end = 1024 + 96 + 1292
    /\ \E i \in TxUaReads(io_log) : Val(io_log[i].val) = 96 + 1292 + 7 * 72

(***************************************************************************)
(* The slot and the object write of mcp2517fd_start_xmit                   *)
(***************************************************************************)
\* C38: when start_xmit encodes a frame into the slot it was given, the slot
\* is below tx_fifos, which is at most 30 and so inside the 32 entries of
\* tx_msg and of the echo buffers; the number of its hardware FIFO is at
\* most 31 and is not the number of the RX FIFO; and the length of the
\* object write is 2 + 8 + the data length rounded up to a multiple of 4,
\* which does not exceed 2 + 8 + payload_size.
C38_SlotAndWriteInBounds ==
    [][\A t \in Threads :
        (pc[t] = "send" /\ pc'[t] = "idle") =>
            LET m == tx_msg'[1]
                n == m.len - (2 + 8)
            IN  /\ prio[t] < tx_fifos
                /\ tx_fifos <= 30
                /\ prio[t] < 32
                /\ TX_FIFO(prio[t]) <= 31
                /\ TX_FIFO(prio[t]) # RX_FIFO
                /\ m.slot = prio[t]
                /\ n % 4 = 0
                /\ TxLen(m.frame) <= n
                /\ n < TxLen(m.frame) + 4
                /\ m.len <= 2 + 8 + payload_size]_vars

\* the last slot of the classic sizing took a frame of 8 bytes, which fills
\* its element
C38_Witness ==
    /\ dev_up /\ tx_fifos = 30 /\ payload_size = 8
    /\ 29 \in tx_pending_mask
    /\ \A t \in Threads : pc[t] = "idle"
    /\ Len(tx_msg) = 1
    /\ tx_msg[1].slot = 29
    /\ tx_msg[1].len = 2 + 8 + 8

====
